---- MODULE Spec2Model ----
(***************************************************************************)
(* A model of the pynogram solving core: the line solver contract, the     *)
(* propagation driver (pynogram/core/propagation.py) and the contradiction *)
(* solver (pyngrm/core/solve/contradiction_solver.py).                     *)
(*                                                                         *)
(* Indexes are 1-based here (rows 1..height, columns 1..width) where the   *)
(* Python code counts from 0.                                              *)
(***************************************************************************)
EXTENDS Integers, Sequences, FiniteSets, TLC

VARIABLES
    \* ---- the line solver called on its own (pynogram.core.line.solve_line)
    line_pc,            \* "idle" | "call" | "returned" | "raised"
    line_method,        \* the method tag handed to solve_line
    line_desc,          \* the clue handed to solve_line
    line_row,           \* the cells handed to solve_line
    line_updated,       \* what solve_line returned (<<>> when it raised)
    \* ---- the board
    rows_descriptions,  \* one clue per row
    columns_descriptions, \* one clue per column
    cells,              \* cells[r][c]: the value of the cell in row r, column c
    rounds_completed,   \* how many times solution_round_completed() has run
    \* ---- propagation.solve and _solve_with_method
    prop_pc,            \* "idle" | "method" | "loop" | "returned" | "raised"
                        \* | "assertion_error"
    methods,            \* the methods still to run, the current one first
    row_indexes,        \* the row seeds of the next method
    column_indexes,     \* the column seeds of the next method
    contradiction_mode,
    total_cells_solved, \* solve's running total, its return value
    line_jobs,          \* the PriorityDict: job -> priority
    all_jobs,           \* every job added during the current method
    method_cells_solved, \* _solve_with_method's running total
    cells_at_call,      \* history: the board when propagation.solve was entered
    visits,             \* history: the <<job, priority>> pairs the current
                        \* method has handed to solve_row, in order
    \* ---- the contradiction solver
    c_pc,               \* "idle" | "start" | "initial" | "line" | "cell" | "trial"
                        \* | "followup" | "line_prop" | "done" | "raised"
    propagate_on_row,
    by_rows,
    assumption,         \* the state assumed in the current round
    solved,             \* the solution rate when the current round began
    counter,            \* the number of the current round
    outer,              \* the line the round is at (solved_row when by_rows)
    inner,              \* the cell of that line the round is at
    save,               \* try_contradiction's snapshot of the cells
    last_probe,         \* history: the last try_contradiction that ran a trial
    \* ---- BaseBoard's constructor and BaseBoard.solve
    b_pc,               \* "idle" | "new" | "ready" | "ValueError" | "rows"
                        \* | "columns" | "round_end" | "done" | "raised"
    b_args,             \* the constructor's arguments [columns, rows]
    b_error,            \* the message of the ValueError raised
    rows_first,         \* solve's flag
    b_solved,           \* solve's local: the rate before the current round
    b_counter,          \* solve's local: the number of the current round
    b_index,            \* the line the current pass is at
    b_order,            \* history: the lines of the current round, as solved
    \* ---- _is_pixel_updated called on its own
    p_pc,               \* "idle" | "call" | "returned" | "AssertionError"
    p_old,              \* the cell before
    p_new,              \* the cell after
    p_result,           \* what _is_pixel_updated returned
    \* ---- a line solver's solutions cache
    k_pc,               \* "idle" | "ready"
    line_cache,         \* the entries [key, value], the least recently used first
    k_desc,             \* the clue of the last line solved through the cache
    k_row,              \* its cells
    k_result,           \* what that solve returned
    k_hit,              \* whether the cache served it
    k_evicted           \* history: an entry has been evicted

line_vars == <<line_pc, line_method, line_desc, line_row, line_updated>>

board_vars == <<rows_descriptions, columns_descriptions, cells, rounds_completed>>

prop_vars == <<prop_pc, methods, row_indexes, column_indexes, contradiction_mode,
               total_cells_solved, line_jobs, all_jobs, method_cells_solved,
               cells_at_call, visits>>

probe_vars == <<c_pc, propagate_on_row, by_rows, assumption, solved, counter,
                outer, inner, save, last_probe>>

base_vars == <<b_pc, b_args, b_error, rows_first, b_solved, b_counter, b_index,
               b_order>>

pixel_vars == <<p_pc, p_old, p_new, p_result>>

cache_vars == <<k_pc, line_cache, k_desc, k_row, k_result, k_hit, k_evicted>>

vars == <<line_vars, board_vars, prop_vars, probe_vars, base_vars, pixel_vars,
          cache_vars>>

(***************************************************************************)
(* Bounds of the model.                                                    *)
(***************************************************************************)
MaxLineLen == 3     \* longest line handed to the line solver on its own
MaxBlocks == 2      \* most blocks in a clue handed to the line solver on its own
MaxCells == 8       \* most cells of a board handed to the contradiction solver
MaxDirectCells == 6 \* most cells of a board on which propagation.solve is called
                    \* directly with arbitrary seeds
MaxMethods == 2     \* most methods in the list handed to propagation.solve
MaxWidth == 5       \* most columns of a two-row board handed to the
                    \* contradiction solver

(***************************************************************************)
(* Cell encoding.  A monochrome cell is one of three symbols; a colored    *)
(* cell is a bitmask of candidate colors, bit 0 being the empty color.     *)
(* is_color_cell tells the two apart by the value alone, so the monochrome *)
(* symbols are kept outside the range of the bitmasks.                     *)
(***************************************************************************)
UNKNOWN == -1
BOX == -2
SPACE == -3

SPACE_COLOR == 0    \* color id of the empty color: bit 0 of a bitmask
BOX_COLOR == 1      \* color id of the one filled color of a monochrome line
COLOR_B == 1        \* color id of 'b' in the tests' palette
COLOR_R == 2        \* color id of 'r' in the tests' palette

\* the tests' palette: ('r', 'b', SPACE)
colors == {COLOR_R, COLOR_B, SPACE_COLOR}

is_color_cell(cell) == cell > 0

MonoMethods == {"bgu", "efficient"}
ColorMethods == {"bgu_color", "efficient_color"}

RECURSIVE ColorsMask(_)
\* the bitmask of a set of color ids
ColorsMask(S) ==
    IF S = {} THEN 0
    ELSE LET k == CHOOSE x \in S : TRUE IN 2^k + ColorsMask(S \ {k})

\* the color ids of a bitmask
MaskColors(mask) == {k \in colors : (mask \div (2^k)) % 2 = 1}

\* every colored cell value: the bitmask of a non-empty set of colors
ColorCells == {ColorsMask(S) : S \in (SUBSET colors) \ {{}}}

\* the candidate colors of a cell, in either encoding
cell_colors(cell) ==
    IF is_color_cell(cell) THEN MaskColors(cell)
    ELSE IF cell = UNKNOWN THEN {SPACE_COLOR, BOX_COLOR}
    ELSE IF cell = BOX THEN {BOX_COLOR}
    ELSE {SPACE_COLOR}

\* a set of candidate colors back into the monochrome encoding
mono_cell(S) ==
    IF S = {SPACE_COLOR, BOX_COLOR} THEN UNKNOWN
    ELSE IF S = {BOX_COLOR} THEN BOX
    ELSE SPACE

(***************************************************************************)
(* The line solver.  A clue is a sequence of blocks <<size, color>>; a     *)
(* monochrome description is a sequence of sizes.  The solver is the       *)
(* two-pass reachability over the clue's state machine.                    *)
(***************************************************************************)
block_size(block) == block[1]
block_color(block) == block[2]

\* a monochrome description as blocks of the one filled color
mono_blocks(desc) == [k \in 1..Len(desc) |-> <<desc[k], BOX_COLOR>>]

RECURSIVE need_cells_upto(_, _)
\* the cells the first k blocks need: their sizes plus one space between every
\* two consecutive blocks of the same color
need_cells_upto(blocks, k) ==
    IF k = 0 THEN 0
    ELSE need_cells_upto(blocks, k - 1) + block_size(blocks[k])
         + (IF k > 1 /\ block_color(blocks[k - 1]) = block_color(blocks[k])
            THEN 1 ELSE 0)

need_cells(blocks) == need_cells_upto(blocks, Len(blocks))

\* A state <<b, p, g>>: b blocks are complete, p cells of block b+1 are placed,
\* and g = 1 when a space was seen since block b ended (or no block ended yet).
fsm_initial == <<0, 0, 1>>

fsm_states(blocks) ==
    {<<b, 0, g>> : b \in 0..Len(blocks), g \in {0, 1}}
    \cup UNION {{<<b - 1, p, 0>> : p \in 1..block_size(blocks[b]) - 1} :
                    b \in 1..Len(blocks)}

\* the final states, the one reached through a space left out
fsm_final_after_block(blocks) == {<<Len(blocks), 0, 0>>}

fsm_final(blocks) == {<<Len(blocks), 0, 0>>, <<Len(blocks), 0, 1>>}

\* fsm_next with a space demanded between every two blocks, whatever their colors
fsm_next_always_gap(blocks, s, c) ==
    LET b == s[1]
        p == s[2]
        g == s[3]
        advance == IF p + 1 = block_size(blocks[b + 1])
                   THEN <<b + 1, 0, 0>> ELSE <<b, p + 1, 0>>
    IN  IF p = 0
        THEN IF c = SPACE_COLOR THEN {<<b, 0, 1>>}
             ELSE IF b < Len(blocks) /\ block_color(blocks[b + 1]) = c /\ g = 1
                  THEN {advance}
                  ELSE {}
        ELSE IF c = block_color(blocks[b + 1]) THEN {advance} ELSE {}

\* fsm_next that lets two blocks of the same color touch
fsm_next_never_gap(blocks, s, c) ==
    LET b == s[1]
        p == s[2]
        advance == IF p + 1 = block_size(blocks[b + 1])
                   THEN <<b + 1, 0, 0>> ELSE <<b, p + 1, 0>>
    IN  IF p = 0
        THEN IF c = SPACE_COLOR THEN {<<b, 0, 1>>}
             ELSE IF b < Len(blocks) /\ block_color(blocks[b + 1]) = c
                  THEN {advance}
                  ELSE {}
        ELSE IF c = block_color(blocks[b + 1]) THEN {advance} ELSE {}

\* fsm_next that reads over a filled cell once no block is left to place
fsm_next_skips_extra(blocks, s, c) ==
    LET b == s[1]
        p == s[2]
        g == s[3]
        advance == IF p + 1 = block_size(blocks[b + 1])
                   THEN <<b + 1, 0, 0>> ELSE <<b, p + 1, 0>>
    IN  IF p = 0
        THEN IF c = SPACE_COLOR THEN {<<b, 0, 1>>}
             ELSE IF b = Len(blocks) THEN {s}
             ELSE IF /\ block_color(blocks[b + 1]) = c
                     /\ (g = 1 \/ (b > 0 /\ block_color(blocks[b]) # c))
                  THEN {advance}
                  ELSE {}
        ELSE IF c = block_color(blocks[b + 1]) THEN {advance} ELSE {}

\* the states reached from state s by reading color c (none or one)
fsm_next(blocks, s, c) ==
    LET b == s[1]
        p == s[2]
        g == s[3]
        advance == IF p + 1 = block_size(blocks[b + 1])
                   THEN <<b + 1, 0, 0>> ELSE <<b, p + 1, 0>>
    IN  IF p = 0
        THEN IF c = SPACE_COLOR THEN {<<b, 0, 1>>}
             ELSE IF /\ b < Len(blocks)
                     /\ block_color(blocks[b + 1]) = c
                     /\ (g = 1 \/ (b > 0 /\ block_color(blocks[b]) # c))
                  THEN {advance}
                  ELSE {}
        ELSE IF c = block_color(blocks[b + 1]) THEN {advance} ELSE {}

RECURSIVE fsm_forward(_, _, _)
\* the states reachable after reading the first i cells
fsm_forward(blocks, cand, i) ==
    IF i = 0 THEN {fsm_initial}
    ELSE UNION {fsm_next(blocks, s, c) :
                    s \in fsm_forward(blocks, cand, i - 1), c \in cand[i]}

RECURSIVE fsm_backward(_, _, _)
\* the states from which the cells after the i-th lead to a final state
fsm_backward(blocks, cand, i) ==
    IF i = Len(cand) THEN fsm_final(blocks)
    ELSE LET after == fsm_backward(blocks, cand, i + 1)
         IN  {s \in fsm_states(blocks) :
                  \E c \in cand[i + 1] : fsm_next(blocks, s, c) \cap after # {}}

\* fsm_keep with the two passes applied apart: a color is kept when some
\* reached state reads it and some state reads it into a state that can finish
fsm_keep_passes_apart(blocks, cand, i) ==
    LET before == fsm_forward(blocks, cand, i - 1)
        after == fsm_backward(blocks, cand, i)
    IN  {c \in cand[i] :
            /\ \E s \in before : fsm_next(blocks, s, c) # {}
            /\ \E s \in fsm_states(blocks) : fsm_next(blocks, s, c) \cap after # {}}

\* fsm_keep without the backward pass
fsm_keep_forward_only(blocks, cand, i) ==
    LET before == fsm_forward(blocks, cand, i - 1)
    IN  {c \in cand[i] : \E s \in before : fsm_next(blocks, s, c) # {}}

\* the colors kept at cell i: those on a path from the initial to a final state
fsm_keep(blocks, cand, i) ==
    LET before == fsm_forward(blocks, cand, i - 1)
        after == fsm_backward(blocks, cand, i)
    IN  {c \in cand[i] : \E s \in before : fsm_next(blocks, s, c) \cap after # {}}

Inconsistency == [ok |-> FALSE, cells |-> <<>>]

\* fsm_solve that only checks the clue's length against the line
fsm_solve_length_only(blocks, cand) ==
    IF need_cells(blocks) > Len(cand) THEN Inconsistency
    ELSE [ok |-> TRUE, cells |-> [i \in 1..Len(cand) |-> fsm_keep(blocks, cand, i)]]

\* the solver on candidate sets: the refined sets, or Inconsistency
fsm_solve(blocks, cand) ==
    IF need_cells(blocks) > Len(cand) THEN Inconsistency
    ELSE IF fsm_forward(blocks, cand, Len(cand)) \cap fsm_final(blocks) = {}
    THEN Inconsistency
    ELSE [ok |-> TRUE, cells |-> [i \in 1..Len(cand) |-> fsm_keep(blocks, cand, i)]]

\* the line solver proper: the refined row in the row's encoding
compute_line(desc, row, method) ==
    LET colored == method \in ColorMethods
        blocks == IF colored THEN desc ELSE mono_blocks(desc)
        res == fsm_solve(blocks, [i \in 1..Len(row) |-> cell_colors(row[i])])
    IN  IF ~res.ok THEN Inconsistency
        ELSE [ok |-> TRUE,
              cells |-> [i \in 1..Len(row) |->
                            IF colored THEN ColorsMask(res.cells[i])
                            ELSE mono_cell(res.cells[i])]]

\* every sequence over S of length at most n
SeqsUpTo(S, n) == UNION {[1..k -> S] : k \in 0..n}

\* the longest line of a board of the model
CachedLen == IF MaxWidth > MaxCells \div 2 THEN MaxWidth ELSE MaxCells \div 2

\* the descriptions that fit a line of n cells
FittingDescriptions(n) ==
    {desc \in SeqsUpTo(1..n, (n + 1) \div 2) : need_cells(mono_blocks(desc)) <= n}

\* The solutions cache, filled: the solution (or Inconsistency) of every
\* monochrome line of a board of the model, by the line's length, its
\* description and its cells.
\* (f @@ <<>> is f as a table of its values, computed once)
solutions_cache ==
    [n \in 1..CachedLen |->
        [desc \in FittingDescriptions(n) |->
            [row \in [1..n -> {UNKNOWN, BOX, SPACE}] |->
                compute_line(desc, row, "bgu")] @@ <<>>] @@ <<>>] @@ <<>>

\* the lines whose solution the cache holds
is_cached(desc, row, method) ==
    /\ method \in MonoMethods
    /\ Len(row) \in DOMAIN solutions_cache
    /\ desc \in DOMAIN solutions_cache[Len(row)]

\* solve_line(description, row, method): a cached solution, or a computed one
solve_line(desc, row, method) ==
    IF is_cached(desc, row, method)
    THEN solutions_cache[Len(row)][desc][row]
    ELSE compute_line(desc, row, method)

(***************************************************************************)
(* The line solver called on its own, as the tests call it.                *)
(***************************************************************************)
\* the clues tried: their sizes sum to at most one more than the line
RECURSIVE SumSizes(_, _)
SumSizes(blocks, k) ==
    IF k = 0 THEN 0 ELSE SumSizes(blocks, k - 1) + block_size(blocks[k])

ColorClues(n) ==
    {d \in SeqsUpTo((1..n) \X (colors \ {SPACE_COLOR}), MaxBlocks) :
        SumSizes(d, Len(d)) <= n + 1}

MonoClues(n) ==
    {d \in SeqsUpTo(1..n, MaxBlocks) : SumSizes(mono_blocks(d), Len(d)) <= n + 1}

\* last_probe before any trial has run
NoProbe ==
    [outcome |-> "none", cell |-> <<0, 0>>, assumption |-> BOX, before |-> <<>>,
     trial |-> <<>>, after |-> <<>>]

\* b_error when no ValueError was raised
NoError == [message |-> "", row |-> <<>>, max_size |-> 0, rows |-> 0, columns |-> 0]

\* no constructor call, no BaseBoard.solve
\* no call of _is_pixel_updated on its own
PixelIdle ==
    /\ p_pc = "idle"
    /\ p_old = UNKNOWN
    /\ p_new = UNKNOWN
    /\ p_result = FALSE

\* no line solved through a cache of its own
CacheIdle ==
    /\ k_pc = "idle"
    /\ line_cache = <<>>
    /\ k_desc = <<>>
    /\ k_row = <<>>
    /\ k_result = Inconsistency
    /\ k_hit = FALSE
    /\ k_evicted = FALSE

BaseIdle ==
    /\ b_pc = "idle"
    /\ b_args = [columns |-> <<>>, rows |-> <<>>]
    /\ b_error = NoError
    /\ rows_first = TRUE
    /\ b_solved = 0
    /\ b_counter = 0
    /\ b_index = 0
    /\ b_order = <<>>

\* no board, no propagation, no contradiction solver
SolversIdle ==
    /\ rows_descriptions = <<>>
    /\ columns_descriptions = <<>>
    /\ cells = <<>>
    /\ rounds_completed = 0
    /\ prop_pc = "idle"
    /\ methods = <<>>
    /\ row_indexes = [none |-> TRUE, indexes |-> {}]
    /\ column_indexes = [none |-> TRUE, indexes |-> {}]
    /\ contradiction_mode = FALSE
    /\ total_cells_solved = 0
    /\ line_jobs = <<>>
    /\ all_jobs = {}
    /\ method_cells_solved = 0
    /\ cells_at_call = <<>>
    /\ visits = <<>>
    /\ c_pc = "idle"
    /\ propagate_on_row = FALSE
    /\ by_rows = TRUE
    /\ assumption = BOX
    /\ solved = 0
    /\ counter = 0
    /\ outer = 0
    /\ inner = 0
    /\ save = <<>>
    /\ last_probe = NoProbe
    /\ BaseIdle

\* no board, no solver at work and no unit called on its own
BoardIdle ==
    /\ SolversIdle
    /\ PixelIdle
    /\ CacheIdle

InitLine ==
    /\ line_pc = "call"
    /\ line_updated = <<>>
    /\ BoardIdle
    /\ \E n \in 1..MaxLineLen :
        \/ /\ line_method = "efficient"
           /\ line_desc \in MonoClues(n)
           /\ line_row \in [1..n -> {UNKNOWN, BOX, SPACE}]
        \/ /\ line_method = "efficient_color"
           /\ line_desc \in ColorClues(n)
           /\ line_row \in [1..n -> ColorCells]

\* solve_line(description, row, method=...) returns or raises
SolveLineCall ==
    /\ line_pc = "call"
    /\ LET res == solve_line(line_desc, line_row, line_method)
       IN  /\ line_pc' = IF res.ok THEN "returned" ELSE "raised"
           /\ line_updated' = res.cells
    /\ UNCHANGED <<line_method, line_desc, line_row>>
    /\ UNCHANGED <<board_vars, prop_vars, probe_vars>>
    /\ UNCHANGED base_vars
    /\ UNCHANGED <<pixel_vars, cache_vars>>

NextLine == SolveLineCall

SpecLine == InitLine /\ [][NextLine]_vars

(***************************************************************************)
(* The board.                                                              *)
(***************************************************************************)
is_colored == FALSE     \* the boards of this model are monochrome
has_blots == FALSE      \* and have no blotted block

height == Len(rows_descriptions)
width == Len(columns_descriptions)

get_row(board_cells, index) == board_cells[index]

get_column(board_cells, index) ==
    [r \in 1..Len(board_cells) |-> board_cells[r][index]]

set_row(board_cells, index, line) == [board_cells EXCEPT ![index] = line]

set_column(board_cells, index, line) ==
    [r \in 1..Len(board_cells) |-> [board_cells[r] EXCEPT ![index] = line[r]]]

\* the cells still UNKNOWN
empty_cells(board_cells) ==
    {<<r, c>> \in (1..height) \X (1..width) : board_cells[r][c] = UNKNOWN}

\* the rate that counts the cells still unknown
solution_rate_of_unknown(board_cells) == Cardinality(empty_cells(board_cells))

\* solution_rate, times height * width: the number of cells known to be box or space
solution_rate(board_cells) == height * width - Cardinality(empty_cells(board_cells))

\* solution_rate == 1
rate_is_one(board_cells) == solution_rate(board_cells) = height * width

\* row_solution_rate(line) == 1
line_is_solved(line) == \A i \in 1..Len(line) : line[i] # UNKNOWN

is_solved_full(board_cells) ==
    \A r \in 1..height : \A c \in 1..width :
        Cardinality(cell_colors(board_cells[r][c])) = 1

RECURSIVE sum_upto(_, _)
sum_upto(row, k) == IF k = 0 THEN 0 ELSE sum_upto(row, k - 1) + row[k]

\* sum(row)
sum(row) == sum_upto(row, Len(row))

\* validate_headers: every clue fits into max_size cells
validate_headers(rows, max_size) ==
    \A k \in 1..Len(rows) :
        LET row == rows[k]
            need == sum(row) + (IF Len(row) > 0 THEN Len(row) - 1 ELSE 0)
        IN  ~(need > max_size)

RECURSIVE boxes_in_blocks(_, _)
\* the number of blocks instead of the number of boxes
boxes_in_blocks(clues, k) ==
    IF k = 0 THEN 0 ELSE boxes_in_blocks(clues, k - 1) + Len(clues[k])

RECURSIVE boxes_in(_, _)
\* sum(sum(block) for block in clues)
boxes_in(clues, k) == IF k = 0 THEN 0 ELSE boxes_in(clues, k - 1) + sum(clues[k])

\* validate: no error is raised
validate(columns, rows) ==
    /\ validate_headers(columns, Len(rows))
    /\ validate_headers(rows, Len(columns))
    /\ boxes_in(rows, Len(rows)) = boxes_in(columns, Len(columns))

\* the other state of a solved monochrome cell
invert(cell) == IF cell = BOX THEN SPACE ELSE IF cell = SPACE THEN BOX ELSE cell

(***************************************************************************)
(* The priority dictionary: a function from the queued jobs to their       *)
(* priorities.  A job is <<is_column, index>>.                             *)
(***************************************************************************)
EmptyQueue == <<>>

\* an insertion that leaves a job already queued at its old priority
add_job_keeps_queued(queue, job, priority) ==
    [k \in DOMAIN queue \cup {job} |->
        IF k \in DOMAIN queue THEN queue[k] ELSE priority]

\* line_jobs[job] = priority
add_job(queue, job, priority) ==
    [k \in DOMAIN queue \cup {job} |-> IF k = job THEN priority ELSE queue[k]]

\* the tag of a job whose first field were is_row
axis_tag_is_row(job) == IF job[1] THEN 0 ELSE 1

\* is_column as the number the heap compares: False = 0 for a row, True = 1
axis_tag(job) == IF job[1] THEN 1 ELSE 0

\* the heap order of the entries (priority, (is_column, index))
entry_less(p1, job1, p2, job2) ==
    \/ p1 < p2
    \/ p1 = p2 /\ axis_tag(job1) < axis_tag(job2)
    \/ p1 = p2 /\ axis_tag(job1) = axis_tag(job2) /\ job1[2] < job2[2]

\* the job that pop_smallest removes
smallest(queue) ==
    CHOOSE job \in DOMAIN queue :
        \A other \in DOMAIN queue \ {job} :
            entry_less(queue[job], job, queue[other], other)

without(queue, job) == [k \in DOMAIN queue \ {job} |-> queue[k]]

(***************************************************************************)
(* propagation.py                                                          *)
(***************************************************************************)
\* _is_pixel_updated answering True for every cell of a line that changed
is_pixel_updated_always(old, new) == TRUE

\* _is_pixel_updated's result when its assertions pass
is_pixel_updated(old, new) == old # new

\* _is_pixel_updated's assertions
pixel_asserts_pass(old, new) ==
    \/ old = new
    \/ IF is_color_cell(old) THEN old > new
       ELSE old = UNKNOWN /\ new \in {BOX, SPACE}

\* a job for every cell of a line that changed somewhere
new_jobs_every_cell(row, updated, is_column, k) ==
    [i \in 1..k |-> <<~is_column, i>>]

RECURSIVE new_jobs_from(_, _, _, _)
\* the jobs of the crossing lines of the cells updated among the first k
new_jobs_from(row, updated, is_column, k) ==
    IF k = 0 THEN <<>>
    ELSE new_jobs_from(row, updated, is_column, k - 1)
         \o (IF is_pixel_updated(row[k], updated[k])
             THEN <<<<~is_column, k>>>> ELSE <<>>)

\* solve_row writes the line to a neighbouring index
write_line_off_by_one(board_cells, index, is_column, updated) ==
    IF is_column
    THEN set_column(board_cells, (index % Len(board_cells[1])) + 1, updated)
    ELSE set_row(board_cells, (index % Len(board_cells)) + 1, updated)

\* solve_row's write of the solved line
write_line(board_cells, index, is_column, updated) ==
    IF is_column THEN set_column(board_cells, index, updated)
    ELSE set_row(board_cells, index, updated)

\* solve_row that puts the first crossing line on the queue when nothing changed
solve_row_requeue_unchanged(board_cells, index, is_column, method) ==
    LET row_desc == IF is_column THEN columns_descriptions[index]
                    ELSE rows_descriptions[index]
        row == IF is_column THEN get_column(board_cells, index)
               ELSE get_row(board_cells, index)
        res == solve_line(row_desc, row, method)
        updated == res.cells
    IN  IF ~res.ok
        THEN [outcome |-> "raised", new_jobs |-> <<>>, cells |-> board_cells]
        ELSE IF row = updated
        THEN [outcome |-> "returned", new_jobs |-> <<<<~is_column, 1>>>>,
              cells |-> board_cells]
        ELSE [outcome |-> "returned",
              new_jobs |-> new_jobs_from(row, updated, is_column, Len(row)),
              cells |-> write_line(board_cells, index, is_column, updated)]

\* solve_row that swallows the line solver's Inconsistency and returns no job
solve_row_swallows_raise(board_cells, index, is_column, method) ==
    LET row_desc == IF is_column THEN columns_descriptions[index]
                    ELSE rows_descriptions[index]
        row == IF is_column THEN get_column(board_cells, index)
               ELSE get_row(board_cells, index)
        res == solve_line(row_desc, row, method)
        updated == res.cells
    IN  IF ~res.ok \/ row = updated
        THEN [outcome |-> "returned", new_jobs |-> <<>>, cells |-> board_cells]
        ELSE IF \E i \in 1..Len(row) : ~pixel_asserts_pass(row[i], updated[i])
        THEN [outcome |-> "assertion_error", new_jobs |-> <<>>,
              cells |-> board_cells]
        ELSE [outcome |-> "returned",
              new_jobs |-> new_jobs_from(row, updated, is_column, Len(row)),
              cells |-> write_line(board_cells, index, is_column, updated)]

\* solve_row: how it ends, the jobs it returns and the cells it leaves
solve_row(board_cells, index, is_column, method) ==
    LET row_desc == IF is_column THEN columns_descriptions[index]
                    ELSE rows_descriptions[index]
        row == IF is_column THEN get_column(board_cells, index)
               ELSE get_row(board_cells, index)
        res == solve_line(row_desc, row, method)
        updated == res.cells
    IN  IF ~res.ok
        THEN [outcome |-> "raised", new_jobs |-> <<>>, cells |-> board_cells]
        ELSE IF row = updated
        THEN [outcome |-> "returned", new_jobs |-> <<>>, cells |-> board_cells]
        ELSE IF \E i \in 1..Len(row) : ~pixel_asserts_pass(row[i], updated[i])
        THEN [outcome |-> "assertion_error", new_jobs |-> <<>>,
              cells |-> board_cells]
        ELSE [outcome |-> "returned",
              new_jobs |-> new_jobs_from(row, updated, is_column, Len(row)),
              cells |-> write_line(board_cells, index, is_column, updated)]

\* a seed argument: None, or a collection of indexes
None == [none |-> TRUE, indexes |-> {}]
Indexes(S) == [none |-> FALSE, indexes |-> S]

\* the methods chosen when the caller names none
default_methods ==
    IF is_colored
    THEN (IF has_blots THEN <<"blot_color">> ELSE <<"bgu_color">>)
    ELSE (IF has_blots THEN <<"blot">> ELSE <<"bgu">>)

\* the shortcut taken whatever the number of seeded lines
shortcut_any_seeds ==
    /\ ~contradiction_mode
    /\ is_solved_full(cells)

\* the shortcut taken in contradiction_mode too
shortcut_in_any_mode ==
    /\ \/ row_indexes.none
       \/ column_indexes.none
       \/ Cardinality(row_indexes.indexes) > 2
       \/ Cardinality(column_indexes.indexes) > 2
    /\ is_solved_full(cells)

\* _solve_with_method returns at once
shortcut ==
    /\ \/ row_indexes.none
       \/ column_indexes.none
       \/ Cardinality(row_indexes.indexes) > 2
       \/ Cardinality(column_indexes.indexes) > 2
    /\ ~contradiction_mode
    /\ is_solved_full(cells)

\* the jobs that seed the queue, the column seeds left out
seed_jobs_rows_only ==
    {<<FALSE, i>> : i \in IF row_indexes.none THEN 1..height
                          ELSE row_indexes.indexes}

\* the jobs that seed the queue
seed_jobs ==
    {<<FALSE, i>> : i \in IF row_indexes.none THEN 1..height
                          ELSE row_indexes.indexes}
    \cup {<<TRUE, j>> : j \in IF column_indexes.none THEN 1..width
                              ELSE column_indexes.indexes}

\* the loop adding the first of the new jobs only
add_jobs_first_only(queue, new_jobs, priority, k) ==
    IF k = 0 THEN queue ELSE add_job(queue, new_jobs[1], priority)

RECURSIVE add_jobs(_, _, _, _)
\* _add_job for the first k of the new jobs
add_jobs(queue, new_jobs, priority, k) ==
    IF k = 0 THEN queue
    ELSE add_job(add_jobs(queue, new_jobs, priority, k - 1), new_jobs[k], priority)

\* the caller's entry into propagation.solve, on the cells it has just written
CallSolve(rows, columns, mode, method_list) ==
    /\ prop_pc' = "method"
    /\ methods' = method_list
    /\ row_indexes' = rows
    /\ column_indexes' = columns
    /\ contradiction_mode' = mode
    /\ total_cells_solved' = 0
    /\ line_jobs' = EmptyQueue
    /\ all_jobs' = {}
    /\ method_cells_solved' = 0
    /\ cells_at_call' = cells'
    /\ visits' = <<>>

\* solve's loop body keeping the last method's count instead of the sum
MethodDone_last_count(cells_solved, jobs) ==
    /\ total_cells_solved' = cells_solved
    /\ row_indexes' = Indexes({job[2] : job \in {j \in jobs : ~j[1]}})
    /\ column_indexes' = Indexes({job[2] : job \in {j \in jobs : j[1]}})
    /\ methods' = Tail(methods)
    /\ prop_pc' = IF Tail(methods) = <<>> THEN "returned" ELSE "method"
    /\ line_jobs' = EmptyQueue
    /\ all_jobs' = {}
    /\ method_cells_solved' = 0
    /\ visits' = <<>>

\* solve that hands the caller's seeds to every method
MethodDone_keeps_seeds(cells_solved, jobs) ==
    /\ total_cells_solved' = total_cells_solved + cells_solved
    /\ UNCHANGED <<row_indexes, column_indexes>>
    /\ methods' = Tail(methods)
    /\ prop_pc' = IF Tail(methods) = <<>> THEN "returned" ELSE "method"
    /\ line_jobs' = EmptyQueue
    /\ all_jobs' = {}
    /\ method_cells_solved' = 0
    /\ visits' = <<>>

\* solve's loop body after _solve_with_method has returned (cells_solved, jobs)
MethodDone(cells_solved, jobs) ==
    /\ total_cells_solved' = total_cells_solved + cells_solved
    /\ row_indexes' = Indexes({job[2] : job \in {j \in jobs : ~j[1]}})
    /\ column_indexes' = Indexes({job[2] : job \in {j \in jobs : j[1]}})
    /\ methods' = Tail(methods)
    /\ prop_pc' = IF Tail(methods) = <<>> THEN "returned" ELSE "method"
    /\ line_jobs' = EmptyQueue
    /\ all_jobs' = {}
    /\ method_cells_solved' = 0
    /\ visits' = <<>>

\* _solve_with_method: the board is solved, return (0, ())
SolveWithMethodShortcut ==
    /\ prop_pc = "method"
    /\ shortcut
    /\ MethodDone(0, {})
    /\ UNCHANGED <<contradiction_mode, cells_at_call>>
    /\ UNCHANGED <<line_vars, board_vars, probe_vars>>
    /\ UNCHANGED base_vars
    /\ UNCHANGED <<pixel_vars, cache_vars>>

\* _solve_with_method: fill the queue with the seeds
SolveWithMethodSeed ==
    /\ prop_pc = "method"
    /\ ~shortcut
    /\ line_jobs' = [job \in seed_jobs |-> 0]
    /\ all_jobs' = seed_jobs
    /\ method_cells_solved' = 0
    /\ prop_pc' = "loop"
    /\ visits' = <<>>
    /\ UNCHANGED <<methods, row_indexes, column_indexes, contradiction_mode,
                   total_cells_solved, cells_at_call>>
    /\ UNCHANGED <<line_vars, board_vars, probe_vars>>
    /\ UNCHANGED base_vars
    /\ UNCHANGED <<pixel_vars, cache_vars>>

\* one turn of the loop, iterating the jobs by key instead of by priority
SolveRowStep_key_order ==
    /\ prop_pc = "loop"
    /\ DOMAIN line_jobs # {}
    /\ LET job == smallest([k \in DOMAIN line_jobs |-> 0])
           priority == line_jobs[job]
           res == solve_row(cells, job[2], job[1], Head(methods))
       IN  /\ res.outcome = "returned"
           /\ cells' = res.cells
           /\ line_jobs' = add_jobs(without(line_jobs, job), res.new_jobs,
                                    priority - 1, Len(res.new_jobs))
           /\ all_jobs' = all_jobs \cup {res.new_jobs[k] : k \in 1..Len(res.new_jobs)}
           /\ method_cells_solved' = method_cells_solved + Len(res.new_jobs)
           /\ visits' = Append(visits, <<job, priority>>)
    /\ UNCHANGED <<prop_pc, methods, row_indexes, column_indexes,
                   contradiction_mode, total_cells_solved, cells_at_call>>
    /\ UNCHANGED <<rows_descriptions, columns_descriptions, rounds_completed>>
    /\ UNCHANGED <<line_vars, probe_vars>>
    /\ UNCHANGED base_vars
    /\ UNCHANGED <<pixel_vars, cache_vars>>

\* one turn of the loop giving the new jobs the priority of the job popped
SolveRowStep_same_priority ==
    /\ prop_pc = "loop"
    /\ DOMAIN line_jobs # {}
    /\ LET job == smallest(line_jobs)
           priority == line_jobs[job]
           res == solve_row(cells, job[2], job[1], Head(methods))
       IN  /\ res.outcome = "returned"
           /\ cells' = res.cells
           /\ line_jobs' = add_jobs(without(line_jobs, job), res.new_jobs,
                                    priority, Len(res.new_jobs))
           /\ all_jobs' = all_jobs \cup {res.new_jobs[k] : k \in 1..Len(res.new_jobs)}
           /\ method_cells_solved' = method_cells_solved + Len(res.new_jobs)
           /\ visits' = Append(visits, <<job, priority>>)
    /\ UNCHANGED <<prop_pc, methods, row_indexes, column_indexes,
                   contradiction_mode, total_cells_solved, cells_at_call>>
    /\ UNCHANGED <<rows_descriptions, columns_descriptions, rounds_completed>>
    /\ UNCHANGED <<line_vars, probe_vars>>
    /\ UNCHANGED base_vars
    /\ UNCHANGED <<pixel_vars, cache_vars>>

\* one turn of the loop: pop the smallest job, solve its line, add the new jobs
SolveRowStep ==
    /\ prop_pc = "loop"
    /\ DOMAIN line_jobs # {}
    /\ LET job == smallest(line_jobs)
           priority == line_jobs[job]
           res == solve_row(cells, job[2], job[1], Head(methods))
       IN  /\ res.outcome = "returned"
           /\ cells' = res.cells
           /\ line_jobs' = add_jobs(without(line_jobs, job), res.new_jobs,
                                    priority - 1, Len(res.new_jobs))
           /\ all_jobs' = all_jobs \cup {res.new_jobs[k] : k \in 1..Len(res.new_jobs)}
           /\ method_cells_solved' = method_cells_solved + Len(res.new_jobs)
           /\ visits' = Append(visits, <<job, priority>>)
    /\ UNCHANGED <<prop_pc, methods, row_indexes, column_indexes,
                   contradiction_mode, total_cells_solved, cells_at_call>>
    /\ UNCHANGED <<rows_descriptions, columns_descriptions, rounds_completed>>
    /\ UNCHANGED <<line_vars, probe_vars>>
    /\ UNCHANGED base_vars
    /\ UNCHANGED <<pixel_vars, cache_vars>>

\* one turn of the loop in which the line solver raises: solve is left at once
SolveRowRaise ==
    /\ prop_pc = "loop"
    /\ DOMAIN line_jobs # {}
    /\ LET job == smallest(line_jobs)
           res == solve_row(cells, job[2], job[1], Head(methods))
       IN  /\ res.outcome # "returned"
           /\ prop_pc' = IF res.outcome = "raised" THEN "raised"
                         ELSE "assertion_error"
           /\ visits' = Append(visits, <<job, line_jobs[job]>>)
    /\ line_jobs' = EmptyQueue
    /\ all_jobs' = {}
    /\ method_cells_solved' = 0
    /\ UNCHANGED <<methods, row_indexes, column_indexes, contradiction_mode,
                   total_cells_solved, cells_at_call>>
    /\ UNCHANGED <<line_vars, board_vars, probe_vars>>
    /\ UNCHANGED base_vars
    /\ UNCHANGED <<pixel_vars, cache_vars>>

\* _solve_with_method that fires the hook in contradiction_mode too
SolveWithMethodReturn_hook_any_mode ==
    /\ prop_pc = "loop"
    /\ DOMAIN line_jobs = {}
    /\ rounds_completed' = rounds_completed + 1
    /\ MethodDone(method_cells_solved, all_jobs)
    /\ UNCHANGED <<contradiction_mode, cells_at_call>>
    /\ UNCHANGED <<rows_descriptions, columns_descriptions, cells>>
    /\ UNCHANGED <<line_vars, probe_vars>>
    /\ UNCHANGED base_vars
    /\ UNCHANGED <<pixel_vars, cache_vars>>

\* the queue is empty: _solve_with_method returns (total_cells_solved, all_jobs)
SolveWithMethodReturn ==
    /\ prop_pc = "loop"
    /\ DOMAIN line_jobs = {}
    /\ rounds_completed' = IF contradiction_mode THEN rounds_completed
                           ELSE rounds_completed + 1
    /\ MethodDone(method_cells_solved, all_jobs)
    /\ UNCHANGED <<contradiction_mode, cells_at_call>>
    /\ UNCHANGED <<rows_descriptions, columns_descriptions, cells>>
    /\ UNCHANGED <<line_vars, probe_vars>>
    /\ UNCHANGED base_vars
    /\ UNCHANGED <<pixel_vars, cache_vars>>

(***************************************************************************)
(* contradiction_solver.py                                                 *)
(***************************************************************************)
propagate_on_cell == ~propagate_on_row

\* the lines a round walks through, and the cells of each
outer_size == IF by_rows THEN height ELSE width
inner_size == IF by_rows THEN width ELSE height

\* the cell (row, column) the round is at
probed_row == IF by_rows THEN outer ELSE inner
probed_column == IF by_rows THEN inner ELSE outer

\* propagation.solve has handed control back to its caller
PropIdle ==
    /\ prop_pc' = "idle"
    /\ methods' = <<>>
    /\ row_indexes' = None
    /\ column_indexes' = None
    /\ contradiction_mode' = FALSE
    /\ total_cells_solved' = 0
    /\ line_jobs' = EmptyQueue
    /\ all_jobs' = {}
    /\ method_cells_solved' = 0
    /\ cells_at_call' = <<>>
    /\ visits' = <<>>

\* solve: line_solver.solve(board)
ContradictionSolveStart ==
    /\ c_pc = "start"
    /\ c_pc' = "initial"
    /\ cells' = cells
    /\ CallSolve(None, None, FALSE, default_methods)
    /\ UNCHANGED <<rows_descriptions, columns_descriptions, rounds_completed>>
    /\ UNCHANGED <<propagate_on_row, by_rows, assumption, solved, counter,
                   outer, inner, save, last_probe>>
    /\ UNCHANGED line_vars
    /\ UNCHANGED base_vars
    /\ UNCHANGED <<pixel_vars, cache_vars>>

\* solve: the board is solved by the first propagation, no round is needed
ContradictionSolveNoNeed ==
    /\ c_pc = "initial"
    /\ prop_pc = "returned"
    /\ rate_is_one(cells)
    /\ c_pc' = "done"
    /\ PropIdle
    /\ UNCHANGED <<propagate_on_row, by_rows, assumption, solved, counter,
                   outer, inner, save, last_probe>>
    /\ UNCHANGED <<line_vars, board_vars>>
    /\ UNCHANGED base_vars
    /\ UNCHANGED <<pixel_vars, cache_vars>>

\* solve: the first round begins, with assumption BOX
ContradictionSolveFirstRound ==
    /\ c_pc = "initial"
    /\ prop_pc = "returned"
    /\ ~rate_is_one(cells)
    /\ solved' = solution_rate(cells)
    /\ assumption' = BOX
    /\ counter' = 1
    /\ outer' = 1
    /\ c_pc' = "line"
    /\ PropIdle
    /\ UNCHANGED <<propagate_on_row, by_rows, inner, save, last_probe>>
    /\ UNCHANGED <<line_vars, board_vars>>
    /\ UNCHANGED base_vars
    /\ UNCHANGED <<pixel_vars, cache_vars>>

\* the contradiction solver with the follow-up propagation inside the try: its
\* Inconsistency is caught and the round goes on
ContradictionSolveRaise_followup_caught ==
    /\ c_pc \in {"initial", "followup", "line_prop"}
    /\ prop_pc \in {"raised", "assertion_error"}
    /\ c_pc' = IF c_pc = "followup" THEN "cell" ELSE "raised"
    /\ inner' = IF c_pc = "followup" THEN inner + 1 ELSE inner
    /\ PropIdle
    /\ UNCHANGED <<propagate_on_row, by_rows, assumption, solved, counter,
                   outer, save, last_probe>>
    /\ UNCHANGED <<line_vars, board_vars>>
    /\ UNCHANGED base_vars
    /\ UNCHANGED <<pixel_vars, cache_vars>>

\* an Inconsistency that nothing catches leaves the contradiction solver
ContradictionSolveRaise ==
    /\ c_pc \in {"initial", "followup", "line_prop"}
    /\ prop_pc \in {"raised", "assertion_error"}
    /\ c_pc' = "raised"
    /\ PropIdle
    /\ UNCHANGED <<propagate_on_row, by_rows, assumption, solved, counter,
                   outer, inner, save, last_probe>>
    /\ UNCHANGED <<line_vars, board_vars>>
    /\ UNCHANGED base_vars
    /\ UNCHANGED <<pixel_vars, cache_vars>>

\* _contradictions_round without the test for solved lines
RoundSkipLine_enters_line ==
    /\ c_pc = "line"
    /\ outer <= outer_size
    /\ line_is_solved(IF by_rows THEN get_row(cells, outer)
                      ELSE get_column(cells, outer))
    /\ inner' = 1
    /\ c_pc' = "cell"
    /\ UNCHANGED <<propagate_on_row, by_rows, assumption, solved, counter,
                   outer, save, last_probe>>
    /\ UNCHANGED <<line_vars, board_vars, prop_vars>>
    /\ UNCHANGED base_vars
    /\ UNCHANGED <<pixel_vars, cache_vars>>

\* _contradictions_round: a line that is already solved is passed over
RoundSkipLine ==
    /\ c_pc = "line"
    /\ outer <= outer_size
    /\ line_is_solved(IF by_rows THEN get_row(cells, outer)
                      ELSE get_column(cells, outer))
    /\ outer' = outer + 1
    /\ UNCHANGED <<c_pc, propagate_on_row, by_rows, assumption, solved, counter,
                   inner, save, last_probe>>
    /\ UNCHANGED <<line_vars, board_vars, prop_vars>>
    /\ UNCHANGED base_vars
    /\ UNCHANGED <<pixel_vars, cache_vars>>

\* _contradictions_round: the cells of the next line are tried one by one
RoundEnterLine ==
    /\ c_pc = "line"
    /\ outer <= outer_size
    /\ ~line_is_solved(IF by_rows THEN get_row(cells, outer)
                       ELSE get_column(cells, outer))
    /\ inner' = 1
    /\ c_pc' = "cell"
    /\ UNCHANGED <<propagate_on_row, by_rows, assumption, solved, counter,
                   outer, save, last_probe>>
    /\ UNCHANGED <<line_vars, board_vars, prop_vars>>
    /\ UNCHANGED base_vars
    /\ UNCHANGED <<pixel_vars, cache_vars>>

\* try_contradiction: the cell is already solved
TryContradictionSolved ==
    /\ c_pc = "cell"
    /\ inner <= inner_size
    /\ cells[probed_row][probed_column] # UNKNOWN
    /\ inner' = inner + 1
    /\ UNCHANGED <<c_pc, propagate_on_row, by_rows, assumption, solved, counter,
                   outer, save, last_probe>>
    /\ UNCHANGED <<line_vars, board_vars, prop_vars>>
    /\ UNCHANGED base_vars
    /\ UNCHANGED <<pixel_vars, cache_vars>>

\* try_contradiction that takes its snapshot after it has written the assumption
TryContradictionAssume_snapshot_late ==
    /\ c_pc = "cell"
    /\ inner <= inner_size
    /\ cells[probed_row][probed_column] = UNKNOWN
    /\ cells' = [cells EXCEPT ![probed_row][probed_column] = assumption]
    /\ save' = cells'
    /\ last_probe' = [outcome |-> "trying", cell |-> <<probed_row, probed_column>>,
                      assumption |-> assumption, before |-> cells,
                      trial |-> <<>>, after |-> <<>>]
    /\ CallSolve(Indexes({probed_row}), Indexes({probed_column}), TRUE,
                 default_methods)
    /\ c_pc' = "trial"
    /\ UNCHANGED <<rows_descriptions, columns_descriptions, rounds_completed>>
    /\ UNCHANGED <<propagate_on_row, by_rows, assumption, solved, counter,
                   outer, inner>>
    /\ UNCHANGED line_vars
    /\ UNCHANGED base_vars
    /\ UNCHANGED <<pixel_vars, cache_vars>>

\* try_contradiction: save the cells, write the assumption, start the trial
TryContradictionAssume ==
    /\ c_pc = "cell"
    /\ inner <= inner_size
    /\ cells[probed_row][probed_column] = UNKNOWN
    /\ save' = cells
    /\ cells' = [cells EXCEPT ![probed_row][probed_column] = assumption]
    /\ last_probe' = [outcome |-> "trying", cell |-> <<probed_row, probed_column>>,
                      assumption |-> assumption, before |-> cells,
                      trial |-> <<>>, after |-> <<>>]
    /\ CallSolve(Indexes({probed_row}), Indexes({probed_column}), TRUE,
                 default_methods)
    /\ c_pc' = "trial"
    /\ UNCHANGED <<rows_descriptions, columns_descriptions, rounds_completed>>
    /\ UNCHANGED <<propagate_on_row, by_rows, assumption, solved, counter,
                   outer, inner>>
    /\ UNCHANGED line_vars
    /\ UNCHANGED base_vars
    /\ UNCHANGED <<pixel_vars, cache_vars>>

\* try_contradiction whose finally keeps what the trial wrote
TryContradictionRollback_keeps_trial ==
    /\ c_pc = "trial"
    /\ prop_pc = "returned"
    /\ cells' = cells
    /\ save' = <<>>
    /\ last_probe' = [last_probe EXCEPT !.outcome = "no_contradiction",
                                        !.trial = cells, !.after = cells']
    /\ inner' = inner + 1
    /\ c_pc' = "cell"
    /\ PropIdle
    /\ UNCHANGED <<rows_descriptions, columns_descriptions, rounds_completed>>
    /\ UNCHANGED <<propagate_on_row, by_rows, assumption, solved, counter, outer>>
    /\ UNCHANGED line_vars
    /\ UNCHANGED base_vars
    /\ UNCHANGED <<pixel_vars, cache_vars>>

\* try_contradiction's finally after a trial without contradiction
TryContradictionRollback ==
    /\ c_pc = "trial"
    /\ prop_pc = "returned"
    /\ cells' = save
    /\ save' = <<>>
    /\ last_probe' = [last_probe EXCEPT !.outcome = "no_contradiction",
                                        !.trial = cells, !.after = cells']
    /\ inner' = inner + 1
    /\ c_pc' = "cell"
    /\ PropIdle
    /\ UNCHANGED <<rows_descriptions, columns_descriptions, rounds_completed>>
    /\ UNCHANGED <<propagate_on_row, by_rows, assumption, solved, counter, outer>>
    /\ UNCHANGED line_vars
    /\ UNCHANGED base_vars
    /\ UNCHANGED <<pixel_vars, cache_vars>>

\* try_contradiction that sets the inverse on the board the trial left
TryContradictionFound_no_restore ==
    /\ c_pc = "trial"
    /\ prop_pc = "raised"
    /\ cells' = [cells EXCEPT ![probed_row][probed_column] = invert(assumption)]
    /\ save' = <<>>
    /\ last_probe' = [last_probe EXCEPT !.outcome = "contradiction",
                                        !.trial = cells, !.after = cells']
    /\ IF propagate_on_cell
       THEN /\ CallSolve(Indexes({probed_row}), Indexes({probed_column}), FALSE,
                         default_methods)
            /\ c_pc' = "followup"
            /\ inner' = inner
       ELSE /\ PropIdle
            /\ c_pc' = "cell"
            /\ inner' = inner + 1
    /\ UNCHANGED <<rows_descriptions, columns_descriptions, rounds_completed>>
    /\ UNCHANGED <<propagate_on_row, by_rows, assumption, solved, counter, outer>>
    /\ UNCHANGED line_vars
    /\ UNCHANGED base_vars
    /\ UNCHANGED <<pixel_vars, cache_vars>>

\* try_contradiction that propagates from every line after a contradiction
TryContradictionFound_followup_all_lines ==
    /\ c_pc = "trial"
    /\ prop_pc = "raised"
    /\ cells' = [save EXCEPT ![probed_row][probed_column] = invert(assumption)]
    /\ save' = <<>>
    /\ last_probe' = [last_probe EXCEPT !.outcome = "contradiction",
                                        !.trial = cells, !.after = cells']
    /\ IF propagate_on_cell
       THEN /\ CallSolve(None, None, FALSE, default_methods)
            /\ c_pc' = "followup"
            /\ inner' = inner
       ELSE /\ PropIdle
            /\ c_pc' = "cell"
            /\ inner' = inner + 1
    /\ UNCHANGED <<rows_descriptions, columns_descriptions, rounds_completed>>
    /\ UNCHANGED <<propagate_on_row, by_rows, assumption, solved, counter, outer>>
    /\ UNCHANGED line_vars
    /\ UNCHANGED base_vars
    /\ UNCHANGED <<pixel_vars, cache_vars>>

\* try_contradiction's finally after a contradiction: restore, set the inverse
\* and, if asked to, propagate from this cell
TryContradictionFound ==
    /\ c_pc = "trial"
    /\ prop_pc = "raised"
    /\ cells' = [save EXCEPT ![probed_row][probed_column] = invert(assumption)]
    /\ save' = <<>>
    /\ last_probe' = [last_probe EXCEPT !.outcome = "contradiction",
                                        !.trial = cells, !.after = cells']
    /\ IF propagate_on_cell
       THEN /\ CallSolve(Indexes({probed_row}), Indexes({probed_column}), FALSE,
                         default_methods)
            /\ c_pc' = "followup"
            /\ inner' = inner
       ELSE /\ PropIdle
            /\ c_pc' = "cell"
            /\ inner' = inner + 1
    /\ UNCHANGED <<rows_descriptions, columns_descriptions, rounds_completed>>
    /\ UNCHANGED <<propagate_on_row, by_rows, assumption, solved, counter, outer>>
    /\ UNCHANGED line_vars
    /\ UNCHANGED base_vars
    /\ UNCHANGED <<pixel_vars, cache_vars>>

\* try_contradiction returns after the propagation that follows a contradiction
TryContradictionPropagated ==
    /\ c_pc = "followup"
    /\ prop_pc = "returned"
    /\ inner' = inner + 1
    /\ c_pc' = "cell"
    /\ PropIdle
    /\ UNCHANGED <<propagate_on_row, by_rows, assumption, solved, counter,
                   outer, save, last_probe>>
    /\ UNCHANGED <<line_vars, board_vars>>
    /\ UNCHANGED base_vars
    /\ UNCHANGED <<pixel_vars, cache_vars>>

\* _contradictions_round: every cell of the line was tried; propagate from the
\* line or go on to the next line
RoundLineEnd ==
    /\ c_pc = "cell"
    /\ inner > inner_size
    /\ IF (by_rows /\ ~propagate_on_cell) \/ (~by_rows /\ propagate_on_cell)
       THEN /\ cells' = cells
            /\ CallSolve(IF by_rows THEN Indexes({outer}) ELSE None,
                         IF by_rows THEN None ELSE Indexes({outer}),
                         FALSE, default_methods)
            /\ c_pc' = "line_prop"
            /\ outer' = outer
       ELSE /\ UNCHANGED <<cells, prop_vars>>
            /\ c_pc' = "line"
            /\ outer' = outer + 1
    /\ UNCHANGED <<rows_descriptions, columns_descriptions, rounds_completed>>
    /\ UNCHANGED <<propagate_on_row, by_rows, assumption, solved, counter,
                   inner, save, last_probe>>
    /\ UNCHANGED line_vars
    /\ UNCHANGED base_vars
    /\ UNCHANGED <<pixel_vars, cache_vars>>

\* _contradictions_round: the propagation from the line has returned
RoundLinePropagated ==
    /\ c_pc = "line_prop"
    /\ prop_pc = "returned"
    /\ outer' = outer + 1
    /\ c_pc' = "line"
    /\ PropIdle
    /\ UNCHANGED <<propagate_on_row, by_rows, assumption, solved, counter,
                   inner, save, last_probe>>
    /\ UNCHANGED <<line_vars, board_vars>>
    /\ UNCHANGED base_vars
    /\ UNCHANGED <<pixel_vars, cache_vars>>

\* solve that treats a round without progress on an unfinished board as an error
RoundEnd_unsolved_raises ==
    /\ c_pc = "line"
    /\ outer > outer_size
    /\ rounds_completed' = IF solution_rate(cells) > solved
                           THEN rounds_completed + 1 ELSE rounds_completed
    /\ IF rate_is_one(cells) \/ solved = solution_rate(cells)
       THEN /\ c_pc' = IF rate_is_one(cells) THEN "done" ELSE "raised"
            /\ UNCHANGED <<solved, assumption, counter, outer>>
       ELSE /\ solved' = solution_rate(cells)
            /\ assumption' = invert(assumption)
            /\ counter' = counter + 1
            /\ outer' = 1
            /\ c_pc' = "line"
    /\ UNCHANGED <<rows_descriptions, columns_descriptions, cells>>
    /\ UNCHANGED <<propagate_on_row, by_rows, inner, save, last_probe>>
    /\ UNCHANGED <<line_vars, prop_vars>>
    /\ UNCHANGED base_vars
    /\ UNCHANGED <<pixel_vars, cache_vars>>

\* solve that never changes its assumption
RoundEnd_same_assumption ==
    /\ c_pc = "line"
    /\ outer > outer_size
    /\ rounds_completed' = IF solution_rate(cells) > solved
                           THEN rounds_completed + 1 ELSE rounds_completed
    /\ IF rate_is_one(cells) \/ solved = solution_rate(cells)
       THEN /\ c_pc' = "done"
            /\ UNCHANGED <<solved, assumption, counter, outer>>
       ELSE /\ solved' = solution_rate(cells)
            /\ assumption' = assumption
            /\ counter' = counter + 1
            /\ outer' = 1
            /\ c_pc' = "line"
    /\ UNCHANGED <<rows_descriptions, columns_descriptions, cells>>
    /\ UNCHANGED <<propagate_on_row, by_rows, inner, save, last_probe>>
    /\ UNCHANGED <<line_vars, prop_vars>>
    /\ UNCHANGED base_vars
    /\ UNCHANGED <<pixel_vars, cache_vars>>

\* the end of a round that never updates the rate it compares with
RoundEnd_keeps_solved ==
    /\ c_pc = "line"
    /\ outer > outer_size
    /\ rounds_completed' = IF solution_rate(cells) > solved
                           THEN rounds_completed + 1 ELSE rounds_completed
    /\ IF rate_is_one(cells) \/ solved = solution_rate(cells)
       THEN /\ c_pc' = "done"
            /\ UNCHANGED <<solved, assumption, counter, outer>>
       ELSE /\ solved' = solved
            /\ assumption' = invert(assumption)
            /\ counter' = counter + 1
            /\ outer' = 1
            /\ c_pc' = "line"
    /\ UNCHANGED <<rows_descriptions, columns_descriptions, cells>>
    /\ UNCHANGED <<propagate_on_row, by_rows, inner, save, last_probe>>
    /\ UNCHANGED <<line_vars, prop_vars>>
    /\ UNCHANGED base_vars
    /\ UNCHANGED <<pixel_vars, cache_vars>>

\* solve: a round is over; stop, or start the next one with the other assumption
RoundEnd ==
    /\ c_pc = "line"
    /\ outer > outer_size
    /\ rounds_completed' = IF solution_rate(cells) > solved
                           THEN rounds_completed + 1 ELSE rounds_completed
    /\ IF rate_is_one(cells) \/ solved = solution_rate(cells)
       THEN /\ c_pc' = "done"
            /\ UNCHANGED <<solved, assumption, counter, outer>>
       ELSE /\ solved' = solution_rate(cells)
            /\ assumption' = invert(assumption)
            /\ counter' = counter + 1
            /\ outer' = 1
            /\ c_pc' = "line"
    /\ UNCHANGED <<rows_descriptions, columns_descriptions, cells>>
    /\ UNCHANGED <<propagate_on_row, by_rows, inner, save, last_probe>>
    /\ UNCHANGED <<line_vars, prop_vars>>
    /\ UNCHANGED base_vars
    /\ UNCHANGED <<pixel_vars, cache_vars>>

(***************************************************************************)
(* The boards and the calls of the model.                                  *)
(***************************************************************************)
\* the clues that fit a line of n cells
Clues(n) ==
    {d \in SeqsUpTo(1..n, (n + 1) \div 2) : validate_headers(<<d>>, n)}

\* the boards of the given sizes <<height, width>> that BaseBoard.__init__
\* accepts
BoardsOf(sizes) ==
    {b \in UNION {[rows : [1..hw[1] -> Clues(hw[2])],
                   columns : [1..hw[2] -> Clues(hw[1])]] : hw \in sizes} :
        validate(b.columns, b.rows)}

\* the boards of at most max_cells cells, both sides at least 2
Boards(max_cells) ==
    BoardsOf({d \in (2..max_cells) \X (2..max_cells) : d[1] * d[2] <= max_cells})

\* the boards of two rows and at most max_width columns
WideBoards(max_width) == BoardsOf({<<2, w>> : w \in 2..max_width})

\* BaseBoard.__init__: the clues, every cell unknown
NewBoard(b) ==
    /\ rows_descriptions = b.rows
    /\ columns_descriptions = b.columns
    /\ cells = [r \in 1..Len(b.rows) |-> [c \in 1..Len(b.columns) |-> UNKNOWN]]
    /\ rounds_completed = 0

LineIdle ==
    /\ line_pc = "idle"
    /\ line_method = "bgu"
    /\ line_desc = <<>>
    /\ line_row = <<>>
    /\ line_updated = <<>>

ProbeIdle ==
    /\ assumption = BOX
    /\ solved = 0
    /\ counter = 0
    /\ outer = 0
    /\ inner = 0
    /\ save = <<>>
    /\ last_probe = NoProbe

\* a list of k methods for a monochrome board
MethodList(k) == [i \in 1..k |-> IF i % 2 = 1 THEN "bgu" ELSE "efficient"]

\* contradiction_solver.solve(board, propagate_on_row, by_rows) on a new board
InitProbeOn(boards) ==
    /\ LineIdle
    /\ \E b \in boards : NewBoard(b)
    /\ c_pc = "start"
    /\ propagate_on_row \in BOOLEAN
    /\ by_rows \in BOOLEAN
    /\ ProbeIdle
    /\ BaseIdle
    /\ PixelIdle
    /\ CacheIdle
    /\ prop_pc = "idle"
    /\ methods = <<>>
    /\ row_indexes = None
    /\ column_indexes = None
    /\ contradiction_mode = FALSE
    /\ total_cells_solved = 0
    /\ line_jobs = EmptyQueue
    /\ all_jobs = {}
    /\ method_cells_solved = 0
    /\ cells_at_call = <<>>
    /\ visits = <<>>

InitProbe == InitProbeOn(Boards(MaxCells))

InitProbeWide == InitProbeOn(WideBoards(MaxWidth))

\* propagation.solve(board, row_indexes, column_indexes, contradiction_mode,
\* methods) on a new board
InitDirect ==
    /\ LineIdle
    /\ \E b \in Boards(MaxDirectCells) : NewBoard(b)
    /\ c_pc = "idle"
    /\ propagate_on_row = FALSE
    /\ by_rows = TRUE
    /\ ProbeIdle
    /\ BaseIdle
    /\ PixelIdle
    /\ CacheIdle
    /\ prop_pc = "method"
    /\ methods \in {MethodList(k) : k \in 1..MaxMethods}
    /\ row_indexes \in {None} \cup {Indexes(S) : S \in SUBSET (1..height)}
    /\ column_indexes \in {None} \cup {Indexes(S) : S \in SUBSET (1..width)}
    /\ contradiction_mode \in BOOLEAN
    /\ total_cells_solved = 0
    /\ line_jobs = EmptyQueue
    /\ all_jobs = {}
    /\ method_cells_solved = 0
    /\ cells_at_call = cells
    /\ visits = <<>>

Init == InitProbe \/ InitDirect

\* propagation.solve on its own
NextDirect ==
    \/ SolveWithMethodShortcut
    \/ SolveWithMethodSeed
    \/ SolveRowStep
    \/ SolveRowRaise
    \/ SolveWithMethodReturn

SpecDirect == InitDirect /\ [][NextDirect]_vars

Next ==
    \/ SolveWithMethodShortcut
    \/ SolveWithMethodSeed
    \/ SolveRowStep
    \/ SolveRowRaise
    \/ SolveWithMethodReturn
    \/ ContradictionSolveStart
    \/ ContradictionSolveNoNeed
    \/ ContradictionSolveFirstRound
    \/ ContradictionSolveRaise
    \/ RoundSkipLine
    \/ RoundEnterLine
    \/ TryContradictionSolved
    \/ TryContradictionAssume
    \/ TryContradictionRollback
    \/ TryContradictionFound
    \/ TryContradictionPropagated
    \/ RoundLineEnd
    \/ RoundLinePropagated
    \/ RoundEnd

\* contradiction_solver.solve on its own
SpecProbe == InitProbe /\ [][Next]_vars

\* contradiction_solver.solve on the boards of two rows
SpecProbeWide == InitProbeWide /\ [][Next]_vars

\* either call
Spec == Init /\ [][Next]_vars


(***************************************************************************)
(* What a clue means, by enumeration: the arrangements of a clue on a line *)
(* of n cells are the lines painted by every placement of its blocks.      *)
(***************************************************************************)
\* where the blocks may start: each block inside the line, in the clue's order,
\* with a space between two consecutive blocks of the same color
Placements(blocks, n) ==
    {st \in [1..Len(blocks) -> 1..n] :
        /\ \A k \in 1..Len(blocks) : st[k] + block_size(blocks[k]) - 1 <= n
        /\ \A k \in 1..Len(blocks) - 1 :
              st[k + 1] >= st[k] + block_size(blocks[k])
                           + (IF block_color(blocks[k]) = block_color(blocks[k + 1])
                              THEN 1 ELSE 0)}

\* the full line that a placement paints
PlacementLine(blocks, n, st) ==
    [i \in 1..n |->
        IF \E k \in 1..Len(blocks) : st[k] <= i /\ i < st[k] + block_size(blocks[k])
        THEN block_color(blocks[CHOOSE k \in 1..Len(blocks) :
                                   st[k] <= i /\ i < st[k] + block_size(blocks[k])])
        ELSE SPACE_COLOR]

Arrangements(blocks, n) ==
    {PlacementLine(blocks, n, st) : st \in Placements(blocks, n)}

\* the arrangements of the clue that the cells allow
ConsistentArrangements(blocks, row) ==
    {a \in Arrangements(blocks, Len(row)) :
        \A i \in 1..Len(row) : a[i] \in cell_colors(row[i])}

LineCallBlocks ==
    IF line_method \in ColorMethods THEN line_desc ELSE mono_blocks(line_desc)

(***************************************************************************)
(* Properties of the line solver (specification SpecLine).                 *)
(***************************************************************************)
\* C2: when solve_line returns, every refined cell is a subset of the cell it
\* refines, and every arrangement of the clue consistent with the given cells
\* is consistent with the refined cells.
C2_LineSolverSound ==
    line_pc = "returned" =>
        /\ Len(line_updated) = Len(line_row)
        /\ \A i \in 1..Len(line_row) :
              cell_colors(line_updated[i]) \subseteq cell_colors(line_row[i])
        /\ LET fit == ConsistentArrangements(LineCallBlocks, line_row)
           IN  \A a \in fit :
                  \A i \in 1..Len(line_row) : a[i] \in cell_colors(line_updated[i])

\* C2 witness: a returned colored line with several consistent arrangements
\* and a cell that lost a candidate.
C2_Witness ==
    /\ line_pc = "returned"
    /\ line_method = "efficient_color"
    /\ Cardinality(ConsistentArrangements(LineCallBlocks, line_row)) > 1
    /\ \E i \in 1..Len(line_row) : line_updated[i] # line_row[i]

\* C3: when solve_line returns, a color remains in refined cell i exactly when
\* some arrangement of the clue consistent with the given cells puts that
\* color at position i.
C3_LineSolverComplete ==
    line_pc = "returned" =>
        LET fit == ConsistentArrangements(LineCallBlocks, line_row)
        IN  \A i \in 1..Len(line_row) : \A c \in colors :
                c \in cell_colors(line_updated[i]) <=> \E a \in fit : a[i] = c

\* C3 witness: the tests' case of two blocks of different colors on three
\* unknown cells, whose middle cell keeps all three colors.
C3_Witness ==
    /\ line_pc = "returned"
    /\ line_method = "efficient_color"
    /\ Len(line_row) = 3
    /\ line_desc = <<<<1, COLOR_B>>, <<1, COLOR_R>>>>
    /\ line_row = [i \in 1..3 |-> ColorsMask(colors)]
    /\ line_updated = <<ColorsMask({SPACE_COLOR, COLOR_B}), ColorsMask(colors),
                        ColorsMask({SPACE_COLOR, COLOR_R})>>

\* C4: solve_line raises exactly when no arrangement of the clue is consistent
\* with the given cells; otherwise it returns.
C4_RaisesIffNoArrangement ==
    line_pc \in {"returned", "raised"} =>
        (line_pc = "raised"
            <=> ConsistentArrangements(LineCallBlocks, line_row) = {})

\* C4 witness: a fully solved line that does not match a clue that fits the
\* line's length makes the solver raise.
C4_Witness ==
    /\ line_pc = "raised"
    /\ need_cells(LineCallBlocks) <= Len(line_row)
    /\ \A i \in 1..Len(line_row) : Cardinality(cell_colors(line_row[i])) = 1

(***************************************************************************)
(* What a solved grid and a solution of the puzzle are.                    *)
(***************************************************************************)
\* the color of a solved cell
color_of(cell) == CHOOSE c \in cell_colors(cell) : TRUE

\* a fully solved line is an arrangement of its clue
LineMatches(desc, line) ==
    [i \in 1..Len(line) |-> color_of(line[i])]
        \in Arrangements(mono_blocks(desc), Len(line))

\* a fully solved grid satisfies every row clue and every column clue
GridMatches(board_cells) ==
    /\ \A r \in 1..height : LineMatches(rows_descriptions[r], get_row(board_cells, r))
    /\ \A c \in 1..width :
          LineMatches(columns_descriptions[c], get_column(board_cells, c))

RECURSIVE RowsArranged(_)
\* the grids of r rows, each row an arrangement of its clue
RowsArranged(r) ==
    IF r = 0 THEN {<<>>}
    ELSE {Append(g, a) : g \in RowsArranged(r - 1),
                         a \in Arrangements(mono_blocks(rows_descriptions[r]), width)}

\* the solutions of the puzzle: the grids of colors whose rows and columns are
\* arrangements of their clues
Solutions ==
    {g \in RowsArranged(height) :
        \A c \in 1..width :
            [r \in 1..height |-> g[r][c]]
                \in Arrangements(mono_blocks(columns_descriptions[c]), height)}

\* the grid g is one of the grids the board still allows
Allows(board_cells, g) ==
    \A r \in 1..height : \A c \in 1..width : g[r][c] \in cell_colors(board_cells[r][c])

\* every cell of the board `new` keeps only candidates it has in the board `old`
Refines(new, old) ==
    \A r \in 1..height : \A c \in 1..width :
        cell_colors(new[r][c]) \subseteq cell_colors(old[r][c])

RECURSIVE candidates_upto(_, _)
candidates_upto(line, k) ==
    IF k = 0 THEN 0
    ELSE candidates_upto(line, k - 1) + Cardinality(cell_colors(line[k]))

RECURSIVE candidates_in_rows(_, _)
candidates_in_rows(board_cells, r) ==
    IF r = 0 THEN 0
    ELSE candidates_in_rows(board_cells, r - 1)
         + candidates_upto(board_cells[r], Len(board_cells[r]))

\* the sum over all cells of the number of candidates
candidates(board_cells) == candidates_in_rows(board_cells, Len(board_cells))

(***************************************************************************)
(* Properties of the propagation driver and of the contradiction solver.   *)
(***************************************************************************)
\* a step of propagation.solve adds no candidate to any cell
MonotoneStep == (prop_pc \in {"method", "loop"}) => Refines(cells', cells)

\* C1: during and after a call of propagation.solve, whether it returns or
\* raises, every cell's candidates are among those it had when the call began,
\* and no step of the call adds a candidate to a cell.
C1_Monotone ==
    /\ [](prop_pc # "idle" => Refines(cells, cells_at_call))
    /\ [][MonotoneStep]_vars

\* C1 witness: a call that raised after it had solved cells, which stay solved.
C1_Witness ==
    /\ prop_pc = "raised"
    /\ \E r \in 1..height : \E c \in 1..width :
          cells_at_call[r][c] = UNKNOWN /\ cells[r][c] # UNKNOWN

\* C5: when propagation.solve returns, or the contradiction solver returns,
\* with every cell solved, every row and every column of the grid is an
\* arrangement of its clue.  (The contradiction solver breaks it on a board of
\* two rows and five columns: with propagate_on_row and by columns it writes
\* the inverses of refuted assumptions and never solves a line again.)
C5_SolvedGridSatisfiesClues ==
    ((prop_pc = "returned" \/ c_pc = "done") /\ is_solved_full(cells))
        => GridMatches(cells)

\* a turn of the loop that does not leave it
LoopTurn == prop_pc = "loop" /\ prop_pc' = "loop"

\* the turn makes progress: the board loses a candidate, or the queue a job
DecreasingTurn ==
    \/ candidates(cells') < candidates(cells)
    \/ /\ cells' = cells
       /\ DOMAIN line_jobs' \subseteq DOMAIN line_jobs
       /\ Cardinality(DOMAIN line_jobs') = Cardinality(DOMAIN line_jobs) - 1

\* C10: a turn of the loop either takes a candidate away from the board, or
\* leaves the board as it is, adds no job and takes one job off the queue.
C10_LoopTurnsDecrease == [][LoopTurn => DecreasingTurn]_vars

\* C10 witness: the queue has emptied after turns that changed the board and
\* turns that did not.
C10_Witness ==
    /\ prop_pc = "loop"
    /\ DOMAIN line_jobs = {}
    /\ method_cells_solved > 0
    /\ Cardinality(all_jobs) > method_cells_solved

\* the cells of a grid other than the probed one
OtherCells(cell) == {rc \in (1..height) \X (1..width) : rc # cell}

\* C6: outside a trial every solution of the puzzle is one of the grids the
\* board allows, so the board the contradiction solver returns allows every
\* solution the new board allowed; and when a trial has found a contradiction,
\* no solution that the board before the trial allows has the assumed state in
\* the probed cell.
C6_ProbingKeepsSolutions ==
    /\ c_pc # "trial" => \A g \in Solutions : Allows(cells, g)
    /\ last_probe.outcome = "contradiction" =>
          \A g \in Solutions :
              Allows(last_probe.before, g) =>
                  g[last_probe.cell[1]][last_probe.cell[2]]
                      # color_of(last_probe.assumption)

\* C6 witness: the contradiction solver has returned on a puzzle that has a
\* solution, after a trial that found a contradiction.
C6_Witness ==
    /\ c_pc = "done"
    /\ last_probe.outcome = "contradiction"
    /\ Solutions # {}

\* C7: after a trial that raised, and before any propagation that follows,
\* every cell other than the probed one has the value it had before the trial.
C7_ContradictionRestoresSnapshot ==
    last_probe.outcome = "contradiction" =>
        \A rc \in OtherCells(last_probe.cell) :
            last_probe.after[rc[1]][rc[2]] = last_probe.before[rc[1]][rc[2]]

\* C7 witness: the trial that raised had solved a cell other than the probed
\* one, and that cell is unknown again.
C7_Witness ==
    /\ last_probe.outcome = "contradiction"
    /\ \E rc \in OtherCells(last_probe.cell) :
          /\ last_probe.trial[rc[1]][rc[2]] # UNKNOWN
          /\ last_probe.after[rc[1]][rc[2]] = UNKNOWN

\* C8: after a trial that returned, the board is in every cell the board before
\* the trial, and the probed cell is still UNKNOWN.
C8_NoContradictionRestoresAll ==
    last_probe.outcome = "no_contradiction" =>
        /\ last_probe.after = last_probe.before
        /\ last_probe.after[last_probe.cell[1]][last_probe.cell[2]] = UNKNOWN

\* C8 witness: the trial reached a fully solved grid and was rolled back.
C8_Witness ==
    /\ last_probe.outcome = "no_contradiction"
    /\ is_solved_full(last_probe.trial)
    /\ last_probe.after = last_probe.before

\* the trial of try_contradiction has raised
TrialRaised == c_pc = "trial" /\ prop_pc = "raised"

\* what try_contradiction does next
InverseSetAndPropagated ==
    /\ last_probe.before[probed_row][probed_column] = UNKNOWN
    /\ cells'[probed_row][probed_column] = invert(assumption)
    /\ \A rc \in OtherCells(<<probed_row, probed_column>>) :
          cells'[rc[1]][rc[2]] = last_probe.before[rc[1]][rc[2]]
    /\ IF propagate_on_cell
       THEN /\ c_pc' = "followup"
            /\ prop_pc' = "method"
            /\ ~contradiction_mode'
            /\ row_indexes' = Indexes({probed_row})
            /\ column_indexes' = Indexes({probed_column})
            /\ cells_at_call' = cells'
       ELSE /\ c_pc' = "cell"
            /\ prop_pc' = "idle"

\* C9: when the trial on an UNKNOWN cell has raised, the cell is set to the
\* inverse of the assumption on the restored board; with propagate an ordinary
\* propagation seeded with the cell's row and column starts, without it no
\* propagation starts and only that cell differs from the snapshot.
C9_InverseSetThenPropagated == [][TrialRaised => InverseSetAndPropagated]_vars

\* C9 witness: the propagation after a contradiction has returned and has
\* solved cells beyond the probed one.
C9_Witness ==
    /\ c_pc = "followup"
    /\ prop_pc = "returned"
    /\ last_probe.outcome = "contradiction"
    /\ cells # last_probe.after

(***************************************************************************)
(* The queue of line jobs                                                  *)
(***************************************************************************)
\* the lines the current method has handed to solve_row so far
visited == {visits[k][1] : k \in 1..Len(visits)}

\* the lines the caller asked for: every line of an axis whose seed is None,
\* the listed ones otherwise
SeededLines ==
    {job \in ({FALSE} \X (1..height)) \cup ({TRUE} \X (1..width)) :
        LET seed == IF job[1] THEN column_indexes ELSE row_indexes
        IN  seed.none \/ job[2] \in seed.indexes}

\* C11: while a method's loop runs, every seeded line has been solved or is
\* still queued; so when the queue empties without a raise, every seeded line
\* (every line of an axis seeded with None) has been solved at least once.
C11_SeededLinesVisited ==
    (prop_pc = "loop") =>
        /\ SeededLines \subseteq visited \cup DOMAIN line_jobs
        /\ DOMAIN line_jobs = {} => SeededLines \subseteq visited

\* C11 witness: the queue has emptied on a method seeded with None for the rows
\* and a list for the columns, and some line was solved more than once.
C11_Witness ==
    /\ prop_pc = "loop"
    /\ DOMAIN line_jobs = {}
    /\ row_indexes.none
    /\ ~column_indexes.none
    /\ column_indexes.indexes # {}
    /\ Len(visits) > Cardinality(visited)
    /\ Cardinality(visited) = Cardinality(SeededLines)

\* a line has been handed to solve_row in this step
LineVisit == prop_pc = "loop" /\ Len(visits') = Len(visits) + 1

\* the job and the priority of the line handed to solve_row in this step
visit_job == visits'[Len(visits')][1]
visit_priority == visits'[Len(visits')][2]

\* the job popped was queued, with a priority no job of the queue undercuts
PopsMinimal ==
    /\ visit_job \in DOMAIN line_jobs
    /\ visit_priority = line_jobs[visit_job]
    /\ \A other \in DOMAIN line_jobs : visit_priority <= line_jobs[other]

\* C12: every line the loop solves is the queued job of minimal numeric
\* priority among the jobs present at that moment, those added or given a new
\* priority during the iteration included; so a re-enqueued line is solved
\* before any waiting line of larger priority.
C12_PopsMinimalPriority == [][LineVisit => PopsMinimal]_vars

\* C12 witness: a line that a refinement re-enqueued below zero has been solved
\* while a seed of priority zero is still waiting.
C12_Witness ==
    /\ prop_pc = "loop"
    /\ visits # <<>>
    /\ visits[Len(visits)][2] < 0
    /\ \E other \in DOMAIN line_jobs : line_jobs[other] = 0
    /\ \E k \in 1..(Len(visits) - 1) : visits[k][1] = visits[Len(visits)][1]

\* no row job of the queue ties with a column that is popped
RowsFirstOnTie ==
    visit_job[1] =>
        \A other \in DOMAIN line_jobs :
            ~other[1] => line_jobs[other] # visit_priority

\* C13: whenever the queue holds a row job and a column job of the same,
\* minimal priority, the row job is popped first: no column is handed to
\* solve_row while a row of the same priority is queued.
C13_RowsBeforeColumnsOnTies == [][LineVisit => RowsFirstOnTie]_vars

\* C13 witness: the second row has been popped at priority zero while every
\* column is waiting at priority zero, and the columns are then solved.
C13_Witness ==
    /\ prop_pc = "loop"
    /\ Len(visits) > 2
    /\ ~visits[2][1][1]
    /\ \A k \in 1..Len(visits) : visits[k][2] = 0
    /\ visits[Len(visits)][1][1]
    /\ \E other \in DOMAIN line_jobs : other[1] /\ line_jobs[other] = 0

\* the lines crossing the solved line at a cell this step has changed
crossing_jobs ==
    IF visit_job[1]
    THEN {<<FALSE, r>> : r \in {x \in 1..height :
                                   cells'[x][visit_job[2]] # cells[x][visit_job[2]]}}
    ELSE {<<TRUE, c>> : c \in {x \in 1..width :
                                  cells'[visit_job[2]][x] # cells[visit_job[2]][x]}}

\* after a line solve that returned: the popped job has left the queue, each
\* crossing line of a changed cell is queued once at the new priority, whether
\* or not it was queued before, and every other job is as it was
ReplacedInPlace ==
    prop_pc' = "loop" =>
        /\ visit_job \notin DOMAIN line_jobs'
        /\ DOMAIN line_jobs' = (DOMAIN line_jobs \ {visit_job}) \cup crossing_jobs
        /\ \A job \in DOMAIN line_jobs' :
              line_jobs'[job] = IF job \in crossing_jobs THEN visit_priority - 1
                                ELSE line_jobs[job]

\* the queue holds lines of the board only, so never more entries than lines
QueueWithinLines ==
    /\ DOMAIN line_jobs \subseteq ({FALSE} \X (1..height)) \cup ({TRUE} \X (1..width))
    /\ Cardinality(DOMAIN line_jobs) <= height + width

\* C14: each (axis, index) job is in the queue at most once; adding a job that
\* is already queued replaces its priority and adds no entry, and the one pop
\* of a job removes it however often it was re-enqueued.
C14_JobsUnique == [](QueueWithinLines) /\ [][LineVisit => ReplacedInPlace]_vars

\* C14 witness: a seeded line not solved yet waits at priority -3 or below, so
\* it was re-enqueued at least twice while queued.
C14_Witness ==
    /\ prop_pc = "loop"
    /\ \E job \in DOMAIN line_jobs :
          /\ job \in SeededLines
          /\ job \notin visited
          /\ line_jobs[job] <= -3

(***************************************************************************)
(* More properties of the line solver (specification SpecLine).            *)
(***************************************************************************)
\* every cell of the line given to the solver has one candidate
RowFullySolved ==
    \A i \in 1..Len(line_row) : Cardinality(cell_colors(line_row[i])) = 1

\* C15: when solve_line returns, solving its result again with the same clue
\* returns that result unchanged; and a fully solved line that is an
\* arrangement of its clue is returned as it was given.
C15_LineSolverIdempotent ==
    /\ line_pc = "returned" =>
          solve_line(line_desc, line_updated, line_method)
              = [ok |-> TRUE, cells |-> line_updated]
    /\ (/\ line_pc # "call"
        /\ RowFullySolved
        /\ ConsistentArrangements(LineCallBlocks, line_row) # {})
          => (line_pc = "returned" /\ line_updated = line_row)

\* C15 witness: the solver has refined a colored line and left a cell of the
\* result undetermined.
C15_Witness ==
    /\ line_pc = "returned"
    /\ line_method = "efficient_color"
    /\ line_updated # line_row
    /\ \E i \in 1..Len(line_row) : Cardinality(cell_colors(line_updated[i])) > 1
    /\ \E i \in 1..Len(line_row) : Cardinality(cell_colors(line_updated[i])) = 1

\* the cell value that holds SPACE alone, in the encoding of the line's method
space_cell == IF line_method \in ColorMethods THEN ColorsMask({SPACE_COLOR}) ELSE SPACE

\* C16: for an empty clue and a line whose every cell still allows SPACE,
\* solve_line returns, and every cell of the result is SPACE alone; this for
\* monochrome lines and for colored lines whose cells allow several colors.
C16_EmptyClueForcesSpaces ==
    (/\ line_pc # "call"
     /\ line_desc = <<>>
     /\ \A i \in 1..Len(line_row) : SPACE_COLOR \in cell_colors(line_row[i]))
        => /\ line_pc = "returned"
           /\ line_updated = [i \in 1..Len(line_row) |-> space_cell]

\* C16 witness: the tests' case extended to three cells: the empty clue on
\* three colored cells that each allow r, b and SPACE.
C16_Witness ==
    /\ line_pc = "returned"
    /\ line_method = "efficient_color"
    /\ line_desc = <<>>
    /\ line_row = [i \in 1..3 |-> ColorsMask(colors)]
    /\ line_updated = [i \in 1..3 |-> ColorsMask({SPACE_COLOR})]

\* some cell of the line given to the solver is known to be filled
RowHasKnownBox ==
    \E i \in 1..Len(line_row) : SPACE_COLOR \notin cell_colors(line_row[i])

\* C17: for an empty clue and a line with a cell already known to be a box (a
\* cell whose candidates exclude SPACE), solve_line raises Inconsistency and
\* returns no result.
C17_EmptyClueWithBoxRaises ==
    (line_pc # "call" /\ line_desc = <<>> /\ RowHasKnownBox)
        => (line_pc = "raised" /\ line_updated = <<>>)

\* C17 witness: the empty clue has raised on a colored line with one cell that
\* is r or b and the other cells open.
C17_Witness ==
    /\ line_pc = "raised"
    /\ line_method = "efficient_color"
    /\ line_desc = <<>>
    /\ Len(line_row) = 3
    /\ line_row[2] = ColorsMask({COLOR_R, COLOR_B})
    /\ line_row[1] = ColorsMask(colors)
    /\ line_row[3] = ColorsMask(colors)

\* the color of each cell of the fully solved line given to the solver
row_colors == [i \in 1..Len(line_row) |-> color_of(line_row[i])]

RECURSIVE runs_upto(_, _)
\* the maximal runs of one filled color among the first i cells of a full
\* line, as blocks <<size, color>>
runs_upto(line, i) ==
    IF i = 0 THEN <<>>
    ELSE LET prev == runs_upto(line, i - 1)
         IN  IF line[i] = SPACE_COLOR THEN prev
             ELSE IF i > 1 /\ line[i - 1] = line[i]
             THEN [prev EXCEPT ![Len(prev)] = <<@[1] + 1, @[2]>>]
             ELSE Append(prev, <<1, line[i]>>)

runs(line) == runs_upto(line, Len(line))

\* the sizes of the blocks plus one cell for every two consecutive blocks of
\* the same color
tight_length(blocks) ==
    SumSizes(blocks, Len(blocks))
    + Cardinality({k \in 1..(Len(blocks) - 1) :
                      block_color(blocks[k]) = block_color(blocks[k + 1])})

\* every cell of the line given to the solver is open
RowAllUnknown ==
    \A i \in 1..Len(line_row) :
        line_row[i] = IF line_method \in ColorMethods THEN ColorsMask(colors)
                      ELSE UNKNOWN

one_b == <<1, COLOR_B>>
one_r == <<1, COLOR_R>>
two_b == <<2, COLOR_B>>

\* the solver on the tests' five open cells with the clue (2,b),(1,b),(1,r)
test_lengthy ==
    solve_line(<<two_b, one_b, one_r>>, [i \in 1..5 |-> ColorsMask(colors)],
               "efficient_color")

\* C18: the solver accepts a fully solved line exactly when its runs of one
\* color are the blocks of the clue, so two blocks of the same color have a
\* space between them and two of different colors may touch; (1,b),(1,b) on
\* three open cells gives b, SPACE, b; (1,b),(1,r) on three open cells leaves
\* every cell with several candidates; a clue whose sizes plus same-color gaps
\* fill the line forces every cell (the tests' five-cell case included).
C18_GapRule ==
    /\ (line_pc # "call" /\ RowFullySolved)
          => (line_pc = "returned" <=> runs(row_colors) = LineCallBlocks)
    /\ (line_pc # "call" /\ RowAllUnknown /\ Len(line_row) = 3
            /\ line_method = "efficient_color")
          => /\ line_desc = <<one_b, one_b>>
                => /\ line_pc = "returned"
                   /\ line_updated = <<ColorsMask({COLOR_B}), ColorsMask({SPACE_COLOR}),
                                       ColorsMask({COLOR_B})>>
             /\ line_desc = <<one_b, one_r>>
                => /\ line_pc = "returned"
                   /\ \A i \in 1..3 : Cardinality(cell_colors(line_updated[i])) > 1
    /\ (line_pc # "call" /\ RowAllUnknown
            /\ tight_length(LineCallBlocks) = Len(line_row))
          => /\ line_pc = "returned"
             /\ \A i \in 1..Len(line_row) :
                   Cardinality(cell_colors(line_updated[i])) = 1
             /\ runs([i \in 1..Len(line_row) |-> color_of(line_updated[i])])
                   = LineCallBlocks
    /\ test_lengthy
          = [ok |-> TRUE,
             cells |-> <<ColorsMask({COLOR_B}), ColorsMask({COLOR_B}),
                         ColorsMask({SPACE_COLOR}), ColorsMask({COLOR_B}),
                         ColorsMask({COLOR_R})>>]

\* C18 witness: the tests' case of two blocks of the same color on three open
\* cells has returned b, SPACE, b.
C18_Witness ==
    /\ line_pc = "returned"
    /\ line_method = "efficient_color"
    /\ line_desc = <<one_b, one_b>>
    /\ line_row = [i \in 1..3 |-> ColorsMask(colors)]
    /\ line_updated = <<ColorsMask({COLOR_B}), ColorsMask({SPACE_COLOR}),
                        ColorsMask({COLOR_B})>>

(***************************************************************************)
(* The shortcut on a solved board and the value propagation.solve returns  *)
(***************************************************************************)
\* no line is handed to solve_row from a fully solved board
NoSolveOnceSolved ==
    (prop_pc = "loop" /\ ~contradiction_mode /\ is_solved_full(cells))
        => Len(visits') = Len(visits)

\* C19 as stated: outside contradiction_mode, once the board is fully solved
\* the driver solves no further line of the queue.
C19_NoLineSolveOnceSolved == [][NoSolveOnceSolved]_vars

\* a method is entered with None or more than two indexes as a seed
ManySeeds ==
    \/ row_indexes.none
    \/ column_indexes.none
    \/ Cardinality(row_indexes.indexes) > 2
    \/ Cardinality(column_indexes.indexes) > 2

\* what a method does when it is entered
MethodEntry ==
    prop_pc = "method" =>
        IF ManySeeds /\ ~contradiction_mode /\ is_solved_full(cells)
        THEN /\ prop_pc' \in {"method", "returned"}
             /\ methods' = Tail(methods)
             /\ visits' = <<>>
             /\ line_jobs' = EmptyQueue
             /\ cells' = cells
             /\ rounds_completed' = rounds_completed
             /\ total_cells_solved' = total_cells_solved
             /\ row_indexes' = Indexes({})
             /\ column_indexes' = Indexes({})
        ELSE /\ prop_pc' = "loop"
             /\ DOMAIN line_jobs' = SeededLines
             /\ cells' = cells

\* what the loop does on a fully solved board: the next job is still solved
SolvedInLoop ==
    (prop_pc = "loop" /\ is_solved_full(cells) /\ DOMAIN line_jobs # {})
        => /\ Len(visits') = Len(visits) + 1
           /\ cells' = cells

\* C19 amended: the shortcut is taken at the entry of a method only: outside
\* contradiction_mode a method entered on a fully solved board with None or
\* more than two indexes as a seed returns at once, 0 cells and no jobs, with
\* no line solved; any other method fills the queue, and a board that becomes
\* fully solved inside the loop still has every queued job solved.
C19_ShortcutAtMethodEntry == [][MethodEntry /\ SolvedInLoop]_vars

\* C19 witness: the first of two methods solved the board and completed its
\* round, the second one returned at once with no jobs.
C19_Witness ==
    /\ prop_pc = "returned"
    /\ ~contradiction_mode
    /\ is_solved_full(cells)
    /\ total_cells_solved > 0
    /\ rounds_completed = 1
    /\ row_indexes = Indexes({})
    /\ column_indexes = Indexes({})

\* the cells that differ between two boards of the same shape
changed_cells(old, new) ==
    {rc \in (1..Len(old)) \X (1..Len(old[1])) :
        old[rc[1]][rc[2]] # new[rc[1]][rc[2]]}

\* the cells of the line solved in this step
visit_cells ==
    IF visit_job[1] THEN (1..height) \X {visit_job[2]}
    ELSE {visit_job[2]} \X (1..width)

\* a line solve that returns changes cells of its line only and adds their
\* number to the method's count
CountsLineChanges ==
    prop_pc' = "loop" =>
        /\ changed_cells(cells, cells') \subseteq visit_cells
        /\ method_cells_solved'
              = method_cells_solved + Cardinality(changed_cells(cells, cells'))
        /\ total_cells_solved' = total_cells_solved

\* C20: every line solve adds the number of cells of its line that it changed
\* to the count, and the counts of the methods add up: while the call runs the
\* counts so far, and at the return the value returned, equal the number of
\* cells changed since the call (a monochrome cell changes once at most); so
\* the call returns 0 when no line solve changes a cell or the shortcut is
\* taken.
C20_ReturnsCellsChanged ==
    /\ [](prop_pc \in {"method", "loop", "returned"} =>
            total_cells_solved + method_cells_solved
                = Cardinality(changed_cells(cells_at_call, cells)))
    /\ [](prop_pc = "returned" =>
            total_cells_solved = Cardinality(changed_cells(cells_at_call, cells)))
    /\ [][LineVisit => CountsLineChanges]_vars

\* C20 witness: two methods have run their loops and the call has returned a
\* count above zero on a board it could not solve fully.
C20_Witness ==
    /\ prop_pc = "returned"
    /\ c_pc = "idle"
    /\ rounds_completed = 2
    /\ total_cells_solved > 0
    /\ total_cells_solved < height * width
    /\ ~is_solved_full(cells)

(***************************************************************************)
(* board.py: BaseBoard's constructor and BaseBoard.solve.  The constructor *)
(* is given clues in the standard form normalize returns: one tuple of     *)
(* block sizes for every line.                                             *)
(***************************************************************************)
MaxCtorLines == 3

\* validate_headers' need_cells, the spaces between the blocks left out
header_need_no_gaps(row) == sum(row)

\* validate_headers' need_cells for one clue
header_need(row) == sum(row) + (IF Len(row) > 0 THEN Len(row) - 1 ELSE 0)

\* the first clue validate_headers stops at, 0 when every clue fits
first_unfit(rows, max_size) ==
    IF \A k \in 1..Len(rows) : ~(header_need(rows[k]) > max_size) THEN 0
    ELSE CHOOSE k \in 1..Len(rows) :
            /\ header_need(rows[k]) > max_size
            /\ \A j \in 1..(k - 1) : ~(header_need(rows[j]) > max_size)

\* 'Cannot allocate row {} in just {} cells'
CannotAllocate(row, max_size) ==
    [message |-> "Cannot allocate row", row |-> row, max_size |-> max_size,
     rows |-> 0, columns |-> 0]

\* 'Number of boxes differs: {} (rows) and {} (columns)'
BoxesDiffer(boxes_in_rows, boxes_in_columns) ==
    [message |-> "Number of boxes differs", row |-> <<>>, max_size |-> 0,
     rows |-> boxes_in_rows, columns |-> boxes_in_columns]

\* validate: the ValueError it raises, NoError when it returns
validate_error(columns, rows) ==
    LET bad_column == first_unfit(columns, Len(rows))
        bad_row == first_unfit(rows, Len(columns))
        boxes_in_rows == boxes_in(rows, Len(rows))
        boxes_in_columns == boxes_in(columns, Len(columns))
    IN  IF bad_column # 0 THEN CannotAllocate(columns[bad_column], Len(rows))
        ELSE IF bad_row # 0 THEN CannotAllocate(rows[bad_row], Len(columns))
        ELSE IF boxes_in_rows # boxes_in_columns
        THEN BoxesDiffer(boxes_in_rows, boxes_in_columns)
        ELSE NoError

\* BaseBoard(columns, rows): the clues and the cells are set, validate decides
BoardInit ==
    /\ b_pc = "new"
    /\ LET error == validate_error(b_args.columns, b_args.rows)
       IN  IF error = NoError
           THEN /\ b_pc' = "ready"
                /\ rows_descriptions' = b_args.rows
                /\ columns_descriptions' = b_args.columns
                /\ cells' = [r \in 1..Len(b_args.rows) |->
                                [c \in 1..Len(b_args.columns) |-> UNKNOWN]]
                /\ UNCHANGED b_error
           ELSE /\ b_pc' = "ValueError"
                /\ b_error' = error
                /\ UNCHANGED <<rows_descriptions, columns_descriptions, cells>>
    /\ UNCHANGED <<rounds_completed, b_args, rows_first, b_solved, b_counter,
                   b_index, b_order>>
    /\ UNCHANGED <<line_vars, prop_vars, probe_vars>>
    /\ UNCHANGED <<pixel_vars, cache_vars>>

\* board.solve(rows_first): the locals are set and the first round begins
BaseSolveCall ==
    /\ b_pc = "ready"
    /\ b_solved' = solution_rate(cells)
    /\ b_counter' = 1
    /\ b_pc' = "rows"
    /\ b_index' = 1
    /\ b_order' = <<>>
    /\ UNCHANGED <<b_args, b_error, rows_first>>
    /\ UNCHANGED <<line_vars, board_vars, prop_vars, probe_vars>>
    /\ UNCHANGED <<pixel_vars, cache_vars>>

\* solve_rows: one row of the pass
SolveRowsStep ==
    /\ b_pc = "rows"
    /\ LET res == solve_line(rows_descriptions[b_index], get_row(cells, b_index),
                             "efficient")
       IN  IF res.ok
           THEN /\ cells' = set_row(cells, b_index, res.cells)
                /\ b_order' = Append(b_order, <<FALSE, b_index>>)
                /\ IF b_index < height
                   THEN b_index' = b_index + 1 /\ b_pc' = "rows"
                   ELSE b_index' = 1 /\ b_pc' = "columns"
           ELSE /\ b_pc' = "raised"
                /\ UNCHANGED <<cells, b_order, b_index>>
    /\ UNCHANGED <<rows_descriptions, columns_descriptions, rounds_completed>>
    /\ UNCHANGED <<b_args, b_error, rows_first, b_solved, b_counter>>
    /\ UNCHANGED <<line_vars, prop_vars, probe_vars>>
    /\ UNCHANGED <<pixel_vars, cache_vars>>

\* solve_columns: one column of the pass
SolveColumnsStep ==
    /\ b_pc = "columns"
    /\ LET res == solve_line(columns_descriptions[b_index],
                             get_column(cells, b_index), "efficient")
       IN  IF res.ok
           THEN /\ cells' = set_column(cells, b_index, res.cells)
                /\ b_order' = Append(b_order, <<TRUE, b_index>>)
                /\ IF b_index < width
                   THEN b_index' = b_index + 1 /\ b_pc' = "columns"
                   ELSE b_index' = 0 /\ b_pc' = "round_end"
           ELSE /\ b_pc' = "raised"
                /\ UNCHANGED <<cells, b_order, b_index>>
    /\ UNCHANGED <<rows_descriptions, columns_descriptions, rounds_completed>>
    /\ UNCHANGED <<b_args, b_error, rows_first, b_solved, b_counter>>
    /\ UNCHANGED <<line_vars, prop_vars, probe_vars>>
    /\ UNCHANGED <<pixel_vars, cache_vars>>

\* solve_round's solution_round_completed, then solve's test for another round
BaseRoundCompleted ==
    /\ b_pc = "round_end"
    /\ rounds_completed' = rounds_completed + 1
    /\ IF rate_is_one(cells) \/ b_solved = solution_rate(cells)
       THEN /\ b_pc' = "done"
            /\ UNCHANGED <<b_solved, b_counter, b_index, b_order>>
       ELSE /\ b_solved' = solution_rate(cells)
            /\ b_counter' = b_counter + 1
            /\ b_pc' = "rows"
            /\ b_index' = 1
            /\ b_order' = <<>>
    /\ UNCHANGED <<rows_descriptions, columns_descriptions, cells>>
    /\ UNCHANGED <<b_args, b_error, rows_first>>
    /\ UNCHANGED <<line_vars, prop_vars, probe_vars>>
    /\ UNCHANGED <<pixel_vars, cache_vars>>

\* the clues tried on a line of n cells: up to one block more than fits, the
\* blocks up to one cell longer than the line
CtorClues(n) == SeqsUpTo(1..(n + 1), (n + 1) \div 2 + 1)

\* the arguments tried: any clues for boards of at most MaxCtorLines lines, and
\* the valid clues of the boards propagation.solve is tried on
CtorArgs ==
    UNION {[columns : [1..hw[2] -> CtorClues(hw[1])],
            rows : [1..hw[1] -> CtorClues(hw[2])]] :
               hw \in {d \in (1..MaxCtorLines) \X (1..MaxCtorLines) :
                          d[1] + d[2] <= MaxCtorLines}}
    \cup {[columns |-> b.columns, rows |-> b.rows] : b \in Boards(MaxDirectCells)}

\* board = BaseBoard(columns, rows); board.solve(rows_first)
InitBoard ==
    /\ LineIdle
    /\ rows_descriptions = <<>>
    /\ columns_descriptions = <<>>
    /\ cells = <<>>
    /\ rounds_completed = 0
    /\ c_pc = "idle"
    /\ propagate_on_row = FALSE
    /\ by_rows = TRUE
    /\ ProbeIdle
    /\ prop_pc = "idle"
    /\ methods = <<>>
    /\ row_indexes = None
    /\ column_indexes = None
    /\ contradiction_mode = FALSE
    /\ total_cells_solved = 0
    /\ line_jobs = EmptyQueue
    /\ all_jobs = {}
    /\ method_cells_solved = 0
    /\ cells_at_call = <<>>
    /\ visits = <<>>
    /\ b_pc = "new"
    /\ b_args \in CtorArgs
    /\ b_error = NoError
    /\ rows_first \in BOOLEAN
    /\ b_solved = 0
    /\ b_counter = 0
    /\ b_index = 0
    /\ b_order = <<>>
    /\ PixelIdle
    /\ CacheIdle

NextBoard ==
    \/ BoardInit
    \/ BaseSolveCall
    \/ SolveRowsStep
    \/ SolveColumnsStep
    \/ BaseRoundCompleted

SpecBoard == InitBoard /\ [][NextBoard]_vars

(***************************************************************************)
(* Properties of the constructor (specification SpecBoard).                *)
(***************************************************************************)
\* the blocks of the clue can be placed on a line of n cells
Fits(clue, n) == Placements(mono_blocks(clue), n) # {}

\* every row clue fits the width and every column clue the height
AllCluesFit ==
    /\ \A k \in 1..Len(b_args.rows) : Fits(b_args.rows[k], Len(b_args.columns))
    /\ \A k \in 1..Len(b_args.columns) : Fits(b_args.columns[k], Len(b_args.rows))

\* the rows and the columns hold the same number of boxes
TotalsMatch ==
    boxes_in(b_args.rows, Len(b_args.rows))
        = boxes_in(b_args.columns, Len(b_args.columns))

\* the constructor has returned and the board is as it left it
Constructed ==
    /\ b_pc = "ready"
    /\ rows_descriptions = b_args.rows
    /\ columns_descriptions = b_args.columns
    /\ cells = [r \in 1..Len(b_args.rows) |->
                   [c \in 1..Len(b_args.columns) |-> UNKNOWN]]

\* C21: the constructor raises when some row clue cannot be placed in the
\* width or some column clue in the height (sizes plus one space between
\* blocks); an empty clue is never the one refused; and when every clue fits
\* and the totals match the board is constructed with every cell UNKNOWN.
C21_InfeasibleCluesRejected ==
    b_pc # "new" =>
        /\ ~AllCluesFit => (b_pc = "ValueError"
                            /\ b_error.message = "Cannot allocate row")
        /\ b_error.message = "Cannot allocate row" =>
              (b_error.row # <<>> /\ ~Fits(b_error.row, b_error.max_size))
        /\ (AllCluesFit /\ TotalsMatch) => b_pc # "ValueError"
        /\ b_pc = "ready" => (Constructed /\ AllCluesFit /\ TotalsMatch)

\* C21 witness: the clue (1, 1) was refused on a line of two cells, which its
\* boxes alone would fit.
C21_Witness ==
    /\ b_pc = "ValueError"
    /\ b_error = CannotAllocate(<<1, 1>>, 2)
    /\ TotalsMatch

RECURSIVE total_boxes(_, _)
\* the boxes the first k clues ask for
total_boxes(clues, k) ==
    IF k = 0 THEN 0
    ELSE total_boxes(clues, k - 1) + SumSizes(mono_blocks(clues[k]), Len(clues[k]))

row_boxes == total_boxes(b_args.rows, Len(b_args.rows))
column_boxes == total_boxes(b_args.columns, Len(b_args.columns))

\* the constructor was called with rows [[3]] and columns [[1], [1]]
ThreeInTwo == b_args = [columns |-> <<<<1>>, <<1>>>>, rows |-> <<<<3>>>>]

\* C22 as stated: whenever the totals of the row clues and of the column
\* clues differ the constructor raises the error of the sum mismatch, with
\* rows [[3]] and columns [[1], [1]] in particular.
C22_MismatchAlwaysReported ==
    (b_pc # "new" /\ row_boxes # column_boxes) =>
        (b_pc = "ValueError" /\ b_error.message = "Number of boxes differs")

\* C22 amended: the constructor raises the error of the sum mismatch exactly
\* when every clue fits its line and the totals differ; the clues are tested
\* for their fit first, so rows [[3]] with columns [[1], [1]] raise 'Cannot
\* allocate row [3] in just 2 cells'.
C22_MismatchAfterFit ==
    b_pc # "new" =>
        /\ (AllCluesFit /\ row_boxes # column_boxes) =>
              (b_pc = "ValueError" /\ b_error = BoxesDiffer(row_boxes, column_boxes))
        /\ b_error.message = "Number of boxes differs" =>
              (AllCluesFit /\ row_boxes # column_boxes /\ b_pc = "ValueError")
        /\ ThreeInTwo => (b_pc = "ValueError" /\ b_error = CannotAllocate(<<3>>, 2))

\* C22 witness: clues that all fit, two boxes in the rows and one in the
\* columns, were refused for their totals.
C22_Witness ==
    /\ b_pc = "ValueError"
    /\ b_error = BoxesDiffer(2, 1)
    /\ AllCluesFit

(***************************************************************************)
(* Errors and partial results of the solvers                               *)
(***************************************************************************)
\* the line handed to solve_row in this step, as it was on the board
visit_line ==
    IF visit_job[1] THEN get_column(cells, visit_job[2])
    ELSE get_row(cells, visit_job[2])

visit_desc ==
    IF visit_job[1] THEN columns_descriptions[visit_job[2]]
    ELSE rows_descriptions[visit_job[2]]

\* the driver does not catch what the line solver raises
DriverAborts ==
    LineVisit =>
        (solve_line(visit_desc, visit_line, Head(methods)).ok
            <=> prop_pc' = "loop")

\* what the caller does with a propagation that has raised
RaiseHandled ==
    prop_pc = "raised" =>
        /\ c_pc = "trial" =>
              /\ contradiction_mode
              /\ c_pc' \in {"followup", "cell"}
              /\ last_probe'.outcome = "contradiction"
        /\ c_pc \in {"initial", "followup", "line_prop"} =>
              /\ ~contradiction_mode
              /\ c_pc' = "raised"

\* the contradiction solver is left by an exception only this way
EscapesOnlyUncaught ==
    (c_pc # "raised" /\ c_pc' = "raised") =>
        (prop_pc = "raised" /\ c_pc # "trial")

\* C23: a line solve that raises aborts propagation.solve at once, in both
\* modes; raised in the contradiction_mode trial of try_contradiction it is
\* caught there and becomes a contradiction; raised by the first propagation,
\* by the one that follows a deduced inverse or by the one at the end of a
\* line it is not caught and the contradiction solver is left by it.
C23_InconsistencyPolicy ==
    [][DriverAborts /\ RaiseHandled /\ EscapesOnlyUncaught]_vars

\* C23 witness: probing by rows with propagation on every cell, a trial was
\* refuted and the propagation after the inverse raised out of the solver.
C23_Witness ==
    /\ c_pc = "raised"
    /\ by_rows
    /\ ~propagate_on_row
    /\ last_probe.outcome = "contradiction"

\* the contradiction solver has returned and the board is not complete
ReturnedPartial == c_pc = "done" /\ ~rate_is_one(cells)

\* C24: on a puzzle that has a solution the contradiction solver is never left
\* by an exception; when it returns with solution_rate < 1, its last round
\* made no progress, no propagation is left running and the board it returns
\* holds what was deduced: a refinement of the new board that every solution
\* of the puzzle agrees with.
C24_PartialResultReturned ==
    Solutions # {} =>
        /\ c_pc # "raised"
        /\ ReturnedPartial =>
              /\ prop_pc = "idle"
              /\ solved = solution_rate(cells)
              /\ \A g \in Solutions : Allows(cells, g)

\* C24 witness: the contradiction solver has returned on a puzzle with several
\* solutions after a round of trials; some cells of the board are known and
\* some are not.
C24_Witness ==
    /\ ReturnedPartial
    /\ Cardinality(Solutions) > 1
    /\ solution_rate(cells) > 0

(***************************************************************************)
(* The order of a round of BaseBoard                                       *)
(***************************************************************************)
\* the lines of one pass of a round, in the order they are solved
rows_pass == [i \in 1..height |-> <<FALSE, i>>]

columns_pass == [j \in 1..width |-> <<TRUE, j>>]

\* C27: when both passes of a round of BaseBoard.solve are over, the lines were
\* solved all rows first and then all columns if rows_first is true, and all
\* columns first and then all rows if rows_first is false.
C27_RowsFirstReversesOrder ==
    b_pc = "round_end" =>
        b_order = IF rows_first THEN rows_pass \o columns_pass
                  ELSE columns_pass \o rows_pass

(***************************************************************************)
(* _is_pixel_updated called on its own                                     *)
(***************************************************************************)
\* the pairs tried: a bitmask cell against any bitmask, the empty one
\* included, and a monochrome cell against any monochrome cell
PixelPairs ==
    (ColorCells \X (ColorCells \cup {0}))
        \cup ({UNKNOWN, BOX, SPACE} \X {UNKNOWN, BOX, SPACE})

InitPixel ==
    /\ LineIdle
    /\ SolversIdle
    /\ CacheIdle
    /\ p_pc = "call"
    /\ \E pair \in PixelPairs : p_old = pair[1] /\ p_new = pair[2]
    /\ p_result = FALSE

\* _is_pixel_updated(p_old, p_new) returns, or one of its assertions fails
PixelUpdatedCall ==
    /\ p_pc = "call"
    /\ IF pixel_asserts_pass(p_old, p_new)
       THEN /\ p_pc' = "returned"
            /\ p_result' = is_pixel_updated(p_old, p_new)
       ELSE /\ p_pc' = "AssertionError"
            /\ UNCHANGED p_result
    /\ UNCHANGED <<p_old, p_new>>
    /\ UNCHANGED <<line_vars, board_vars, prop_vars, probe_vars, base_vars,
                   cache_vars>>

NextPixel == PixelUpdatedCall

SpecPixel == InitPixel /\ [][NextPixel]_vars

\* the number of colors of a bitmask
popcount(mask) == Cardinality({k \in 0..2 : (mask \div (2^k)) % 2 = 1})

\* new keeps some of the colors of old, not all, and no other
strict_subset(new, old) ==
    /\ new # 0
    /\ new # old
    /\ \A k \in 0..2 : (new \div (2^k)) % 2 = 1 => (old \div (2^k)) % 2 = 1

\* the transitions the predicate is to accept
monotone_refinement(old, new) ==
    IF is_color_cell(old) THEN strict_subset(new, old)
    ELSE old = UNKNOWN /\ new \in {BOX, SPACE}

\* C29: _is_pixel_updated(old, new) returns False when old = new; otherwise it
\* returns True if new is a strict non-empty subset of the bitmask old, or if
\* old is UNKNOWN and new is BOX or SPACE, and any other transition fails an
\* assertion.
C29_OnlyMonotoneRefinements ==
    p_pc \in {"returned", "AssertionError"} =>
        IF p_old = p_new THEN p_pc = "returned" /\ p_result = FALSE
        ELSE IF monotone_refinement(p_old, p_new)
        THEN p_pc = "returned" /\ p_result = TRUE
        ELSE p_pc = "AssertionError"

(***************************************************************************)
(* Candidate sets are never emptied                                        *)
(***************************************************************************)
\* the candidate sets of the line handed to solve_row in this step
visit_candidates == [i \in 1..Len(visit_line) |-> cell_colors(visit_line[i])]

\* what the line solver leaves of the candidates of cell i of that line
visit_kept(i) == fsm_keep(mono_blocks(visit_desc), visit_candidates, i)

\* the line solve of this step would leave some cell without a candidate
WouldEmpty == \E i \in 1..Len(visit_line) : visit_kept(i) = {}

\* the line handed to solve_row in this step, as the step leaves it
visit_line_after ==
    IF visit_job[1] THEN get_column(cells', visit_job[2])
    ELSE get_row(cells', visit_job[2])

\* a line solve either raises and writes nothing, or writes candidates
EmptyingRaises ==
    LineVisit =>
        IF WouldEmpty
        THEN prop_pc' = "raised" /\ cells' = cells
        ELSE /\ prop_pc' = "loop"
             /\ \A i \in 1..Len(visit_line) :
                   cell_colors(visit_line_after[i]) = visit_kept(i)

\* the inverse written after a refuted trial is a candidate the cell had
InverseWasCandidate ==
    (c_pc = "trial" /\ prop_pc = "raised") =>
        LET r == last_probe.cell[1]
            c == last_probe.cell[2]
        IN  /\ cell_colors(cells'[r][c]) # {}
            /\ cell_colors(cells'[r][c]) \subseteq cell_colors(save[r][c])
            /\ cells'[r][c] # cells[r][c]

\* C28: no cell of a board reached through propagation.solve or the
\* contradiction solver is without a candidate: a line solve that would leave
\* a cell with none raises Inconsistency and writes nothing, any other line
\* solve writes the candidates it kept, and the inverse written after a
\* refuted trial is a candidate the cell had before the trial.
C28_CandidatesNeverEmpty ==
    /\ [](\A r \in 1..height : \A c \in 1..width : cell_colors(cells[r][c]) # {})
    /\ [][EmptyingRaises /\ InverseWasCandidate]_vars

\* C28 witness: in a trial, after lines were solved and written, a line solve
\* raised.
C28_Witness ==
    /\ c_pc = "trial"
    /\ prop_pc = "raised"
    /\ Len(visits) > 2
    /\ cells # save

(***************************************************************************)
(* What a line solve schedules                                             *)
(***************************************************************************)
\* what the line solver returns for the line handed to solve_row in this step
visit_updated == solve_line(visit_desc, visit_line, Head(methods)).cells

\* the indexes of the cells of that line the solve changes
refined_indexes ==
    {k \in 1..Len(visit_line) : visit_updated[k] # visit_line[k]}

\* the job of the line that crosses the visited line at index k
perpendicular(k) == <<~visit_job[1], k>>

\* the jobs this step has put on the queue, or moved in it
enqueued ==
    {job \in DOMAIN line_jobs' :
        job \notin DOMAIN line_jobs \/ line_jobs'[job] # line_jobs[job]}

SchedulesRefined ==
    (LineVisit /\ prop_pc' = "loop") =>
        /\ visit_line_after = visit_updated
        /\ \A k \in refined_indexes :
              /\ perpendicular(k) \in DOMAIN line_jobs'
              /\ line_jobs'[perpendicular(k)] = visit_priority - 1
              /\ perpendicular(k) \in all_jobs'
        /\ enqueued \subseteq {perpendicular(k) : k \in refined_indexes}
        /\ all_jobs' \ all_jobs \subseteq {perpendicular(k) : k \in refined_indexes}
        /\ DOMAIN line_jobs \ {visit_job} \subseteq DOMAIN line_jobs'
        /\ refined_indexes = {} =>
              /\ cells' = cells
              /\ line_jobs' = without(line_jobs, visit_job)
              /\ all_jobs' = all_jobs

InitScenario == InitProbeOn(BoardsOf({<<3, 3>>, <<2, 4>>}))

SpecScenario == InitScenario /\ [][Next]_vars

\* the board with the clue [1] on every row and every column
AllOnes ==
    /\ rows_descriptions = <<<<1>>, <<1>>, <<1>>>>
    /\ columns_descriptions = <<<<1>>, <<1>>, <<1>>>>

\* the first propagation of the contradiction solver is over
AfterFirstPropagation == c_pc \notin {"idle", "start", "initial"}

\* C26: on the board of three rows and three columns with the clue [1] on
\* every line, line propagation alone determines no cell, and the contradiction
\* solver ends with solution_rate = 1/3 (three of the nine cells known).
C26_EndsAtOneThird ==
    AllOnes =>
        /\ (c_pc = "line" /\ counter = 1 /\ outer = 1) => solution_rate(cells) = 0
        /\ c_pc = "done" => 3 * solution_rate(cells) = height * width

\* C26 (amended): on that board line propagation alone determines no cell, no
\* trial of the contradiction solver finds a contradiction, and the solver
\* returns after its first round with solution_rate = 0, every cell unknown;
\* the solver is never left by an exception.
C26_EndsAtZero ==
    AllOnes =>
        /\ c_pc # "raised"
        /\ AfterFirstPropagation =>
              /\ counter = 1
              /\ last_probe.outcome # "contradiction"
        /\ c_pc \notin {"trial", "start"} =>
              /\ solution_rate(cells) = 0
              /\ \A g \in Solutions : Allows(cells, g)
        /\ c_pc = "done" => last_probe.cell = <<3, 3>>

\* C26 witness: the solver has returned on that board after trying every cell,
\* and each cell is a box in some solution of the puzzle and a space in
\* another.
C26_Witness ==
    /\ AllOnes
    /\ c_pc = "done"
    /\ last_probe.cell = <<3, 3>>
    /\ \A r \in 1..3 : \A c \in 1..3 :
          /\ \E g \in Solutions : g[r][c] = BOX_COLOR
          /\ \E g \in Solutions : g[r][c] = SPACE_COLOR

(***************************************************************************)
(* A line solver's solutions cache, entry by entry                         *)
(***************************************************************************)
\* the size the solutions cache is made with
max_size == 10000

\* the number of entries the cache of the model holds
MaxCacheEntries == 2

cache_capacity == IF max_size < MaxCacheEntries THEN max_size ELSE MaxCacheEntries

\* the cache keyed by the cells alone
cache_key_cells_only(desc, row) == <<<<>>, row>>

\* the key of a line's solution
cache_key(desc, row) == <<desc, row>>

\* where the cache holds the key: an index, or 0
cache_index(cache, key) ==
    IF \E i \in 1..Len(cache) : cache[i].key = key
    THEN CHOOSE i \in 1..Len(cache) : cache[i].key = key
    ELSE 0

\* the cache without its entry at index i
cache_without(cache, i) ==
    [j \in 1..(Len(cache) - 1) |-> IF j < i THEN cache[j] ELSE cache[j + 1]]

\* the lines solved through the cache: every clue that fits a line of two
\* cells, with every state of the line
CachedLines ==
    {<<desc, row>> : desc \in FittingDescriptions(2),
                     row \in [1..2 -> {UNKNOWN, BOX, SPACE}]}

InitCache ==
    /\ LineIdle
    /\ SolversIdle
    /\ PixelIdle
    /\ k_pc = "ready"
    /\ line_cache = <<>>
    /\ k_desc = <<>>
    /\ k_row = <<>>
    /\ k_result = Inconsistency
    /\ k_hit = FALSE
    /\ k_evicted = FALSE

\* a line solve served from the cache; the entry becomes the most recent one
CacheHit ==
    /\ k_pc = "ready"
    /\ \E line \in CachedLines :
          LET at == cache_index(line_cache, cache_key(line[1], line[2]))
          IN  /\ at > 0
              /\ k_result' = line_cache[at].value
              /\ line_cache' = Append(cache_without(line_cache, at), line_cache[at])
              /\ k_desc' = line[1]
              /\ k_row' = line[2]
    /\ k_hit' = TRUE
    /\ UNCHANGED <<k_pc, k_evicted>>
    /\ UNCHANGED <<line_vars, board_vars, prop_vars, probe_vars, base_vars,
                   pixel_vars>>

\* a line solve the cache does not hold: it is computed and saved, in place of
\* the least recently used entry when the cache is full
CacheMiss ==
    /\ k_pc = "ready"
    /\ \E line \in CachedLines :
          LET key == cache_key(line[1], line[2])
              value == compute_line(line[1], line[2], "efficient")
              full == Len(line_cache) >= cache_capacity
          IN  /\ cache_index(line_cache, key) = 0
              /\ k_result' = value
              /\ line_cache' = Append(IF full THEN Tail(line_cache) ELSE line_cache,
                                      [key |-> key, value |-> value])
              /\ k_evicted' = (k_evicted \/ full)
              /\ k_desc' = line[1]
              /\ k_row' = line[2]
    /\ k_hit' = FALSE
    /\ UNCHANGED k_pc
    /\ UNCHANGED <<line_vars, board_vars, prop_vars, probe_vars, base_vars,
                   pixel_vars>>

NextCache == CacheHit \/ CacheMiss

SpecCache == InitCache /\ [][NextCache]_vars

line_colors(line) ==
    [i \in 1..Len(line) |-> CHOOSE k \in cell_colors(line[i]) : TRUE]

\* every cell of the line is solved
line_solved(line) ==
    \A i \in 1..Len(line) : Cardinality(cell_colors(line[i])) = 1

\* a solved line is an arrangement of the blocks of its clue
line_matches(desc, line) ==
    line_colors(line) \in Arrangements(mono_blocks(desc), Len(line))

\* in contradiction mode a method always seeds its queue
EntryInContradictionMode ==
    (prop_pc = "method" /\ contradiction_mode) =>
        /\ prop_pc' = "loop"
        /\ DOMAIN line_jobs' = SeededLines
        /\ SeededLines # {} => DOMAIN line_jobs' # {}

\* a solved line handed to the line solver is validated against its clue
SolvedLineValidated ==
    (LineVisit /\ line_solved(visit_line)) =>
        /\ cells' = cells
        /\ IF line_matches(visit_desc, visit_line) THEN prop_pc' = "loop"
           ELSE prop_pc' = "raised"

\* C31: in contradiction_mode a method never returns at once because the
\* board is solved: it puts every seeded line on the queue; a line whose cells
\* are all solved is still handed to the line solver, which raises unless the
\* line is an arrangement of its clue, so a trial that starts on a fully
\* assigned grid returns only if its seeded row and column match their clues.
C31_NoShortcutInContradictionMode ==
    /\ [][EntryInContradictionMode /\ SolvedLineValidated]_vars
    /\ []((prop_pc = "loop" /\ contradiction_mode /\ DOMAIN line_jobs = {})
            => SeededLines \subseteq visited)
    /\ []((c_pc = "trial" /\ prop_pc = "returned" /\ is_solved_full(cells_at_call))
            => /\ line_matches(rows_descriptions[last_probe.cell[1]],
                               get_row(cells_at_call, last_probe.cell[1]))
               /\ line_matches(columns_descriptions[last_probe.cell[2]],
                               get_column(cells_at_call, last_probe.cell[2])))

\* C31 witness: a trial started on a fully assigned grid and the line solver
\* raised on one of the two seeded lines.
C31_Witness ==
    /\ c_pc = "trial"
    /\ prop_pc = "raised"
    /\ contradiction_mode
    /\ is_solved_full(cells_at_call)

(***************************************************************************)
(* The chain of methods of propagation.solve                               *)
(***************************************************************************)
\* the indexes of the rows, or of the columns, among a set of jobs
indexes_of(jobs, is_column) == {job[2] : job \in {j \in jobs : j[1] = is_column}}

\* the lines the seeds of the next method name
named_seeds ==
    {<<FALSE, r>> : r \in row_indexes.indexes}
        \cup {<<TRUE, c>> : c \in column_indexes.indexes}

\* a method whose queue has drained hands the jobs it touched to the next one
HandsOverTouched ==
    (prop_pc = "loop" /\ DOMAIN line_jobs = {}) =>
        /\ row_indexes' = Indexes(indexes_of(visited, FALSE))
        /\ column_indexes' = Indexes(indexes_of(visited, TRUE))
        /\ SeededLines \subseteq visited
        /\ visited = all_jobs
        /\ total_cells_solved' = total_cells_solved + method_cells_solved
        /\ prop_pc' = IF Len(methods) > 1 THEN "method" ELSE "returned"

\* a method that returns at once hands over no job and adds nothing
ShortcutHandsOverNothing ==
    (prop_pc = "method" /\ prop_pc' # "loop") =>
        /\ row_indexes' = Indexes({})
        /\ column_indexes' = Indexes({})
        /\ total_cells_solved' = total_cells_solved

\* a method given indexes by the one before seeds exactly their lines
SeedsNamedLines ==
    (prop_pc = "method" /\ prop_pc' = "loop"
        /\ ~row_indexes.none /\ ~column_indexes.none) =>
        /\ DOMAIN line_jobs' = named_seeds
        /\ all_jobs' = named_seeds

\* C32: a method whose queue has drained hands to the next method the row
\* indexes and the column indexes of exactly the jobs it touched, its seeds
\* and the jobs it enqueued, and the next method seeds exactly those lines;
\* its count is added to the total; a method that took the shortcut hands
\* over no row and no column and adds nothing.
C32_MethodChaining ==
    [][HandsOverTouched /\ ShortcutHandsOverNothing /\ SeedsNamedLines]_vars

\* C32 witness: the second method is entered after a first one that solved
\* cells and touched some of the rows only.
C32_Witness ==
    /\ prop_pc = "method"
    /\ Len(methods) = 1
    /\ total_cells_solved > 0
    /\ ~row_indexes.none
    /\ row_indexes.indexes # {}
    /\ row_indexes.indexes # 1..height

(***************************************************************************)
(* What a round of trials skips                                            *)
(***************************************************************************)
\* the line the round is at
round_line ==
    IF by_rows THEN get_row(cells, outer) ELSE get_column(cells, outer)

\* nothing but the position of the round changes
OnlyPositionMoves ==
    /\ cells' = cells
    /\ save' = save
    /\ last_probe' = last_probe
    /\ rounds_completed' = rounds_completed
    /\ UNCHANGED prop_vars

\* a line reached with all its cells solved is passed over
SkipsSolvedLine ==
    (c_pc = "line" /\ outer <= outer_size) =>
        IF \A i \in 1..Len(round_line) : round_line[i] # UNKNOWN
        THEN /\ c_pc' = "line"
             /\ outer' = outer + 1
             /\ OnlyPositionMoves
        ELSE /\ c_pc' = "cell"
             /\ outer' = outer
             /\ inner' = 1
             /\ OnlyPositionMoves

\* try_contradiction on a cell that is not UNKNOWN does nothing
SkipsKnownCell ==
    (c_pc = "cell" /\ inner <= inner_size) =>
        IF cells[probed_row][probed_column] # UNKNOWN
        THEN /\ c_pc' = "cell"
             /\ inner' = inner + 1
             /\ outer' = outer
             /\ OnlyPositionMoves
        ELSE /\ c_pc' = "trial"
             /\ save' = cells
             /\ prop_pc' = "method"

\* C33: in a round a line whose cells are all solved when it is reached is
\* skipped without a trial, and try_contradiction on a cell that is not
\* UNKNOWN returns without a snapshot, a write to the board or a propagation;
\* a trial is only ever run on a cell that was UNKNOWN.
C33_ProbingSkipsKnown ==
    /\ [][SkipsSolvedLine /\ SkipsKnownCell]_vars
    /\ [](c_pc = "trial" => save[probed_row][probed_column] = UNKNOWN)

\* C33 witness: the round has just passed over a known cell of a line it
\* entered: the cell before the current one is known and no trial ran on it.
C33_Witness ==
    /\ c_pc = "cell"
    /\ inner > 1
    /\ inner <= inner_size
    /\ LET r == IF by_rows THEN outer ELSE inner - 1
           c == IF by_rows THEN inner - 1 ELSE outer
       IN  /\ cells[r][c] # UNKNOWN
           /\ last_probe.cell # <<r, c>>
    /\ cells[probed_row][probed_column] = UNKNOWN

(***************************************************************************)
(* When the contradiction solver propagates                                *)
(***************************************************************************)
\* the step after the last cell of a line has been probed
LineProbed == c_pc = "cell" /\ inner > inner_size

\* the per-line propagation runs with propagate_on_row and only then
LinePropagationOnRowOnly ==
    LineProbed =>
        IF propagate_on_row
        THEN /\ c_pc' = "line_prop"
             /\ prop_pc' = "method"
             /\ IF by_rows
                THEN row_indexes' = Indexes({outer})
                ELSE column_indexes' = Indexes({outer})
        ELSE /\ c_pc' = "line"
             /\ prop_pc' = "idle"

\* the propagation after a deduced inverse runs with propagate_on_cell and
\* only then
CellPropagationOnCellOnly ==
    (c_pc = "trial" /\ prop_pc = "raised") =>
        IF propagate_on_row THEN c_pc' = "cell" /\ prop_pc' = "idle"
        ELSE c_pc' = "followup" /\ prop_pc' = "method"

\* C34: with propagate_on_cell a propagation runs right after each deduced
\* inverse and none at the end of a line; with propagate_on_row the inverse is
\* written without propagation and one propagation seeded with the line runs
\* after the last cell of the line was probed; by rows and by columns alike.
C34_PropagationBatching ==
    [][LinePropagationOnRowOnly /\ CellPropagationOnCellOnly]_vars

(***************************************************************************)
(* The rounds of the contradiction solver                                  *)
(***************************************************************************)
\* the solver starts with one propagation of the whole board
StartsWithFullPropagation ==
    c_pc = "start" =>
        /\ c_pc' = "initial"
        /\ prop_pc' = "method"
        /\ row_indexes'.none
        /\ column_indexes'.none
        /\ ~contradiction_mode'
        /\ cells' = cells

\* after it the solver returns, or starts the first round with BOX
AfterFullPropagation ==
    (c_pc = "initial" /\ prop_pc = "returned") =>
        IF \A r \in 1..height : \A c \in 1..width : cells[r][c] # UNKNOWN
        THEN c_pc' = "done" /\ counter' = 0 /\ last_probe' = NoProbe
        ELSE c_pc' = "line" /\ counter' = 1 /\ assumption' = BOX

\* a further round starts only after progress short of completion
NextRoundAfterProgress ==
    (counter >= 1 /\ counter' # counter) =>
        /\ counter' = counter + 1
        /\ c_pc = "line"
        /\ outer > outer_size
        /\ Cardinality(empty_cells(cells)) < height * width - solved
        /\ empty_cells(cells) # {}
        /\ assumption' # assumption
        /\ assumption' \in {BOX, SPACE}

\* the assumption changes only when a further round starts
AssumptionKeptInRound ==
    (counter >= 1 /\ counter' = counter) => assumption' = assumption

\* C35: the contradiction solver first runs one propagation of the whole
\* board and returns without a trial if the board is then solved; otherwise
\* round 1 probes with BOX, every later round with the inverse of the round
\* before, and a further round starts only after a round that raised the
\* solution rate and left the board incomplete.
C35_AssumptionAlternates ==
    /\ [][StartsWithFullPropagation /\ AfterFullPropagation
            /\ NextRoundAfterProgress /\ AssumptionKeptInRound]_vars
    /\ [](c_pc \in {"start", "initial"} => counter = 0 /\ last_probe = NoProbe)
    /\ [](counter >= 1 =>
            assumption = IF counter % 2 = 1 THEN BOX ELSE SPACE)
    /\ [](c_pc = "trial" => last_probe.assumption = assumption)

\* C35 witness: a trial of the second round assumes SPACE.
C35_Witness ==
    /\ c_pc = "trial"
    /\ counter = 2
    /\ assumption = SPACE
    /\ last_probe.assumption = SPACE

(***************************************************************************)
(* The hook solution_round_completed                                       *)
(***************************************************************************)
\* an ordinary method whose queue has drained
OrdinaryMethodEnds ==
    prop_pc = "loop" /\ DOMAIN line_jobs = {} /\ ~contradiction_mode

\* the driver fires the hook once when an ordinary method ends, and at no
\* other step of a method
HookAtOrdinaryMethodEnd ==
    prop_pc \in {"method", "loop"} =>
        rounds_completed' = IF OrdinaryMethodEnds THEN rounds_completed + 1
                            ELSE rounds_completed

\* C36: propagation.solve calls board.solution_round_completed exactly once
\* at the end of each method of an ordinary propagation whose queue has
\* drained; not when a method returns by the shortcut, not when a line solve
\* raises, and never in contradiction_mode: a direct call in
\* contradiction_mode leaves the count of completed rounds at 0, and every
\* propagation of a trial runs in contradiction_mode.
C36_RoundCompletedHook ==
    /\ [][HookAtOrdinaryMethodEnd]_vars
    /\ []((c_pc = "idle" /\ contradiction_mode) => rounds_completed = 0)
    /\ []((c_pc = "trial" /\ prop_pc \in {"method", "loop"}) => contradiction_mode)

\* C36 witness: the first of two methods of an ordinary propagation has
\* drained its queue and fired the hook, the second one is about to start on
\* a board that is not solved.
C36_Witness ==
    /\ prop_pc = "method"
    /\ c_pc = "idle"
    /\ ~contradiction_mode
    /\ Len(methods) = 1
    /\ rounds_completed = 1
    /\ total_cells_solved > 0
    /\ ~is_solved_full(cells)

(***************************************************************************)
(* The board a drained propagation leaves                                  *)
(***************************************************************************)
\* every line of the board
all_lines == {<<FALSE, i>> : i \in 1..height} \cup {<<TRUE, j>> : j \in 1..width}

\* the line solver returns the line of this job unchanged
line_fixed(job) ==
    LET res == solve_row(cells, job[2], job[1], "bgu")
    IN  /\ res.outcome = "returned"
        /\ res.new_jobs = <<>>
        /\ res.cells = cells

\* the lines the last method handed back at the return
returned_jobs ==
    {<<FALSE, i>> : i \in row_indexes.indexes}
    \cup {<<TRUE, j>> : j \in column_indexes.indexes}

\* a method seeded with every line keeps every line visited or queued
SeededWithAll == SeededLines = all_lines

\* C37: when a propagation seeded with all rows and all columns returns
\* without the shortcut and without a raise (its last method hands back every
\* line), the line solver returns every row and every column of the final
\* board unchanged; inside the loop every line that was visited and is not in
\* the queue is already such a line, so a line whose cells changed after its
\* last visit is in the queue again.
C37_FixpointAtExit ==
    /\ []((prop_pc = "returned" /\ returned_jobs = all_lines)
            => \A job \in all_lines : line_fixed(job))
    /\ []((prop_pc = "loop")
            => \A job \in visited \ DOMAIN line_jobs : line_fixed(job))
    /\ []((prop_pc = "loop" /\ SeededWithAll)
            => visited \cup DOMAIN line_jobs = all_lines)

\* C37 witness: the queue of a method seeded with every line has drained
\* after some line was visited a second time, on a board the method could
\* not solve fully.
C37_Witness ==
    /\ prop_pc = "loop"
    /\ DOMAIN line_jobs = {}
    /\ SeededWithAll
    /\ Len(visits) > Cardinality(all_lines)
    /\ method_cells_solved > 0
    /\ ~is_solved_full(cells)

(***************************************************************************)
(* The priorities of the queue                                             *)
(***************************************************************************)
\* the jobs that were in the queue when the line was solved, the job popped
\* left out
queued_before == DOMAIN line_jobs \ {visit_job}

\* every priority in the queue is an integer not above zero
PrioritiesNotPositive ==
    \A job \in DOMAIN line_jobs : line_jobs[job] \in Int /\ line_jobs[job] <= 0

\* a job enqueued by a refinement goes below every job of the queue
EnqueuedBelowQueue ==
    (LineVisit /\ prop_pc' = "loop") =>
        \A job \in enqueued : \A other \in queued_before :
            line_jobs'[job] < line_jobs[other]

\* a line is never popped for its first visit while a crossing line that a
\* refinement has enqueued still waits: with every line seeded the line popped
\* was in the queue when the crossing line was enqueued
PerpendicularBeforeQueued ==
    (LineVisit /\ SeededWithAll /\ visit_job \notin visited) =>
        \A job \in queued_before :
            job[1] # visit_job[1] => line_jobs[job] = 0

\* C38 as stated: every priority is an integer <= 0, a job enqueued by a
\* refinement gets a priority strictly below every job in the queue, and all
\* the perpendicular lines of the line just refined are visited before any
\* line that was queued before.
C38_FreshLinesFirst ==
    /\ [](prop_pc = "loop" => PrioritiesNotPositive)
    /\ [][EnqueuedBelowQueue /\ PerpendicularBeforeQueued]_vars

\* after a refinement the next job popped is one of the jobs just enqueued
NextIsEnqueued ==
    (LineVisit /\ prop_pc' = "loop" /\ enqueued # {}) =>
        smallest(line_jobs') \in enqueued

\* a job that keeps its priority is visited after every job enqueued below it
KeptPriorityWaits ==
    LineVisit =>
        \A job \in queued_before : visit_priority <= line_jobs[job]

\* C38 amended: every priority in the queue is an integer <= 0, a job
\* enqueued by a refinement gets a priority strictly below every job in the
\* queue, so the next line visited is one of the perpendicular lines just
\* enqueued, and a job is visited only when no queued job has a smaller
\* priority; a line that was queued before may still be visited ahead of the
\* other perpendicular lines when a later refinement enqueues it again.
C38_FreshLinesNext ==
    /\ [](prop_pc = "loop" => PrioritiesNotPositive)
    /\ [][EnqueuedBelowQueue /\ NextIsEnqueued /\ KeptPriorityWaits]_vars

\* C38 witness: a line seeded at priority 0 and never visited has been
\* enqueued again two levels down while a line enqueued one level down by an
\* earlier refinement still waits.
C38_Witness ==
    /\ prop_pc = "loop"
    /\ SeededWithAll
    /\ \E job \in DOMAIN line_jobs : \E other \in DOMAIN line_jobs :
          /\ job \notin visited
          /\ line_jobs[job] = -2
          /\ line_jobs[other] = -1
          /\ other[1] # job[1]

(***************************************************************************)
(* The value a single-method call returns                                  *)
(***************************************************************************)
\* the cells UNKNOWN at the call that are BOX or SPACE now
newly_solved ==
    {rc \in (1..height) \X (1..width) :
        /\ cells_at_call[rc[1]][rc[2]] = UNKNOWN
        /\ cells[rc[1]][rc[2]] \in {BOX, SPACE}}

\* a line solve that returns leaves the known cells alone, turns UNKNOWN
\* cells into BOX or SPACE only, and counts each of them once
CountsEachCellOnce ==
    (LineVisit /\ prop_pc' = "loop") =>
        /\ \A rc \in (1..height) \X (1..width) :
              cells'[rc[1]][rc[2]] # cells[rc[1]][rc[2]] =>
                  /\ cells[rc[1]][rc[2]] = UNKNOWN
                  /\ cells'[rc[1]][rc[2]] \in {BOX, SPACE}
        /\ method_cells_solved' - method_cells_solved
              = Cardinality(empty_cells(cells)) - Cardinality(empty_cells(cells'))

\* the call that has returned ran one ordinary method to the end of its queue
SingleMethodReturned ==
    /\ prop_pc = "returned"
    /\ c_pc = "idle"
    /\ ~contradiction_mode
    /\ rounds_completed = 1
    /\ returned_jobs # {}

\* C39: on a monochrome board the value a single-method propagation.solve
\* returns when it does not raise equals the number of cells that were UNKNOWN
\* before the call and are BOX or SPACE after it: a line solve changes a cell
\* from UNKNOWN to a solved value only, so each cell is counted at most once.
C39_EachCellCountedOnce ==
    /\ [](prop_pc = "returned" => total_cells_solved = Cardinality(newly_solved))
    /\ [](SingleMethodReturned =>
            total_cells_solved = Cardinality(empty_cells(cells_at_call))
                                    - Cardinality(empty_cells(cells)))
    /\ [][CountsEachCellOnce]_vars

\* C39 witness: a single ordinary method has returned a count that is above
\* zero and below the number of cells, some cells staying UNKNOWN.
C39_Witness ==
    /\ SingleMethodReturned
    /\ total_cells_solved > 1
    /\ total_cells_solved = Cardinality(newly_solved)
    /\ empty_cells(cells) # {}

(***************************************************************************)
(* The round loops of contradiction_solver.solve and BaseBoard.solve       *)
(***************************************************************************)
\* either solver called on a new board
InitRounds == InitProbe \/ InitBoard

NextRounds ==
    \/ SolveWithMethodShortcut
    \/ SolveWithMethodSeed
    \/ SolveRowStep
    \/ SolveRowRaise
    \/ SolveWithMethodReturn
    \/ ContradictionSolveStart
    \/ ContradictionSolveNoNeed
    \/ ContradictionSolveFirstRound
    \/ ContradictionSolveRaise
    \/ RoundSkipLine
    \/ RoundEnterLine
    \/ TryContradictionSolved
    \/ TryContradictionAssume
    \/ TryContradictionRollback
    \/ TryContradictionFound
    \/ TryContradictionPropagated
    \/ RoundLineEnd
    \/ RoundLinePropagated
    \/ RoundEnd
    \/ BoardInit
    \/ BaseSolveCall
    \/ SolveRowsStep
    \/ SolveColumnsStep
    \/ BaseRoundCompleted

\* contradiction_solver.solve or BaseBoard.solve
SpecRounds == InitRounds /\ [][NextRounds]_vars

\* the end of a round of the contradiction solver: the loop is left exactly
\* when the round solved no cell or the last one, and a round that is not the
\* last has solved at least one cell
ProbeRoundStops ==
    (c_pc = "line" /\ outer > outer_size) =>
        /\ solution_rate(cells) >= solved
        /\ (c_pc' = "done") <=> (rate_is_one(cells) \/ solution_rate(cells) = solved)
        /\ c_pc' # "done" =>
              /\ c_pc' = "line"
              /\ solved' > solved
              /\ solved' = solution_rate(cells)
              /\ counter' = counter + 1

\* the end of a round of BaseBoard.solve: the same rule
BaseRoundStops ==
    b_pc = "round_end" =>
        /\ solution_rate(cells) >= b_solved
        /\ (b_pc' = "done") <=> (rate_is_one(cells) \/ solution_rate(cells) = b_solved)
        /\ b_pc' # "done" =>
              /\ b_pc' = "rows"
              /\ b_solved' > b_solved
              /\ b_solved' = solution_rate(cells)
              /\ b_counter' = b_counter + 1

\* the rounds counted so far are bounded by the cells solved when the round
\* began, which are fewer than all the cells
ProbeRoundsBounded ==
    c_pc \in {"line", "trial"} =>
        /\ 1 <= counter
        /\ counter <= solved + 1
        /\ solved < height * width
        /\ counter <= height * width + 1

BaseRoundsBounded ==
    b_pc \in {"rows", "columns", "round_end"} =>
        /\ 1 <= b_counter
        /\ b_counter <= b_solved + 1
        /\ b_solved < height * width
        /\ b_counter <= height * width + 1

\* C40: every round of the contradiction solver except the last strictly
\* increases the number of solved cells, the loop is left after the first
\* round that leaves the solution rate unchanged or brings it to 1, so at most
\* h*w + 1 rounds run on an h x w board; the same stop rule ends
\* BaseBoard.solve.
C40_RoundLoopsStop ==
    /\ [][ProbeRoundStops /\ BaseRoundStops]_vars
    /\ [](ProbeRoundsBounded /\ BaseRoundsBounded)

\* C40 witness: the contradiction solver has left its loop after a second
\* round that brought the board to a full solution, the first round having
\* solved some cells but not all.
C40_Witness ==
    /\ c_pc = "done"
    /\ counter = 2
    /\ rate_is_one(cells)
    /\ solved > 0
    /\ solved < solution_rate(cells)

====
